---------------------------- MODULE Spec2Model ----------------------------
(***************************************************************************)
(* MAVLink mission manager (src/modules/mavlink/mavlink_mission.cpp).      *)
(*                                                                         *)
(* One MavlinkMissionManager object per transport channel; the statics of  *)
(* the class are shared by all of them.  Every handler and send() is one   *)
(* atomic action.  Each C++ method is an operator from machine state to    *)
(* machine state; a machine state is the record                            *)
(*    [me  |-> the fields of the object the method runs on,                *)
(*     st  |-> the static fields of the class,                             *)
(*     dm  |-> the content of dataman,                                     *)
(*     out |-> the messages emitted so far by the running action,          *)
(*     ret |-> the value returned by the last method that returns one]     *)
(*                                                                         *)
(* Time.  A timestamp field is kept as the time elapsed since it was       *)
(* taken, in time units, saturating just above the largest timeout it is   *)
(* compared with; NoTime stands for the value 0 the code uses for "not     *)
(* set".  Every channel has its own clock, advanced by send().             *)
(***************************************************************************)
EXTENDS Integers, Sequences, FiniteSets, TLC

VARIABLES
    mgr,        \* [Channels -> fields of that channel's MavlinkMissionManager]
    st,         \* the static fields of MavlinkMissionManager
    dm,         \* dataman: [item -> [index -> stored value or DmEmpty]]
    dm_fault,   \* the storage medium is gone: every dataman call fails
    scn,        \* the scenario: which environment the channels are in
    heard,      \* [Channels -> the variant of the last request or item handled]
    stale,      \* [Channels -> another channel changed the active mission since
                \*  this one last changed it or ran check_active_mission()]
    told,       \* [Channels -> how many status texts about failed dataman reads
                \*  and writes the channel has emitted]
    lent        \* [Channels -> the dataman ids that were active when the channel
                \*  answered the REQUEST_LIST of its mission download: none when
                \*  it is not in one]

vars == <<mgr, st, dm, dm_fault, scn, heard, stale, told, lent>>

---------------------------------------------------------------------------
(* Bounds of the model *)

\* list capacity of every mission type (MAX_COUNT[] of the class)
MaxItems == 2
\* _retry_timeout and _action_timeout, in time units
RetryTimeout == 1
ActionTimeout == 2
\* fence stats writes explored per behaviour
MaxFenceWrites == 3
\* the time after a reached item during which MISSION_ITEM_REACHED is repeated
ReachedWindow == 1

---------------------------------------------------------------------------
(* Program constants *)

MAV_MISSION_TYPE_MISSION == 0
MAV_MISSION_TYPE_FENCE == 1
MAV_MISSION_TYPE_RALLY == 2
MAV_MISSION_TYPE_ALL == 255

MAV_MISSION_ACCEPTED == 0
MAV_MISSION_ERROR == 1
MAV_MISSION_UNSUPPORTED_FRAME == 2
MAV_MISSION_UNSUPPORTED == 3
MAV_MISSION_NO_SPACE == 4

PX4_OK == 0
PX4_ERROR == -1

FILESYSTEM_ERRCOUNT_NOTIFY_LIMIT == 2

MAV_COMP_ID_ALL == 0
MAV_COMP_ID_MISSIONPLANNER == 190

\* mavlink_system.sysid / .compid of the vehicle
OurSysid == 1
OurCompid == 1

\* width of _geofence_update_counter (uint16_t) and of the wire seq
UINT16 == 65536

MAVLINK_WPM_STATE_IDLE == "IDLE"
MAVLINK_WPM_STATE_SENDLIST == "SENDLIST"
MAVLINK_WPM_STATE_GETLIST == "GETLIST"

Channels == {"ch0", "ch1"}

StoredTypes == {MAV_MISSION_TYPE_MISSION, MAV_MISSION_TYPE_FENCE, MAV_MISSION_TYPE_RALLY}

MAX_COUNT == [t \in StoredTypes |-> MaxItems]

NoTime == -1
DmEmpty == [empty |-> TRUE]

Min(a, b) == IF a < b THEN a ELSE b

---------------------------------------------------------------------------
(* Clock *)

\* hrt_absolute_time(): a timestamp taken now has elapsed time 0
hrt_absolute_time == 0

\* a timeout that is over as soon as the timestamp is set
Expired_at_once(t, timeout) == t # NoTime /\ t >= 0

\* hrt_elapsed_time(&t) > timeout
Expired(t, timeout) == t # NoTime /\ t > timeout

\* a timestamp after dt more time units
Later(t, dt, cap) == IF t = NoTime THEN NoTime ELSE Min(t + dt, cap)

---------------------------------------------------------------------------
(* dataman *)

DM_KEY_MISSION_STATE == "MISSION_STATE"
DM_KEY_FENCE_POINTS == "FENCE_POINTS"
DM_KEY_SAFE_POINTS == "SAFE_POINTS"
DM_KEY_WAYPOINTS_OFFBOARD(id) == IF id = 0 THEN "WAYPOINTS_OFFBOARD_0" ELSE "WAYPOINTS_OFFBOARD_1"

DmItems == {DM_KEY_MISSION_STATE, DM_KEY_FENCE_POINTS, DM_KEY_SAFE_POINTS,
            DM_KEY_WAYPOINTS_OFFBOARD(0), DM_KEY_WAYPOINTS_OFFBOARD(1)}

\* indices of an item: the mission state has index 0 only, a waypoint buffer has
\* MAX_COUNT slots, fence and safe points have the stats at 0 and MAX_COUNT slots
DmIndices(item) ==
    IF item = DM_KEY_MISSION_STATE THEN {0}
    ELSE IF item \in {DM_KEY_FENCE_POINTS, DM_KEY_SAFE_POINTS} THEN 0..MaxItems
    ELSE 0..(MaxItems - 1)

DmBlank == [item \in DmItems |-> [i \in DmIndices(item) |-> DmEmpty]]

\* dm_read(item, index, ...) returns the stored size: ok says the medium answered
dm_read_ok(s, item, index, ok) ==
    ok /\ index \in DmIndices(item) /\ s.dm[item][index] # DmEmpty

dm_read_value(s, item, index) == s.dm[item][index]

\* dm_write(item, index, DM_PERSIST_POWER_ON_RESET, value, size) == size
dm_write_ok(item, index, ok) == ok /\ index \in DmIndices(item)

dm_write(s, item, index, value, ok) ==
    IF dm_write_ok(item, index, ok)
    THEN [s EXCEPT !.dm[item][index] = value]
    ELSE s

---------------------------------------------------------------------------
(* Output *)

Emit(s, m) == [s EXCEPT !.out = Append(@, m)]

send_statustext_critical(s, text) ==
    Emit(s, [msg |-> "STATUSTEXT", text |-> text])

\* _filesystem_errcount++ < FILESYSTEM_ERRCOUNT_NOTIFY_LIMIT, then the status text.
\* The counter is only ever compared with the limit: it is kept saturated there.
filesystem_error(s, text) ==
    LET n == s.me._filesystem_errcount
        s1 == [s EXCEPT !.me._filesystem_errcount = Min(n + 1, FILESYSTEM_ERRCOUNT_NOTIFY_LIMIT)]
    IN  IF n < FILESYSTEM_ERRCOUNT_NOTIFY_LIMIT
        THEN send_statustext_critical(s1, text)
        ELSE s1

---------------------------------------------------------------------------
(* Construction *)

\* the member initialisers of the constructor
NewManager ==
    [_state |-> MAVLINK_WPM_STATE_IDLE,
     _mission_type |-> MAV_MISSION_TYPE_MISSION,
     _time_last_recv |-> NoTime,
     _time_last_sent |-> NoTime,
     _time_last_reached |-> NoTime,
     _int_mode |-> FALSE,
     _filesystem_errcount |-> 0,
     _my_dataman_id |-> 0,
     _transfer_dataman_id |-> 0,
     _transfer_count |-> 0,
     _transfer_seq |-> 0,
     _transfer_current_seq |-> -1,
     _transfer_partner_sysid |-> 0,
     _transfer_partner_compid |-> 0,
     _geofence_locked |-> FALSE]

\* the initialisers of the static members
NewStatics ==
    [_dataman_id |-> 0,
     _count |-> [t \in StoredTypes |-> 0],
     _current_seq |-> 0,
     _last_reached |-> -1,
     _transfer_in_progress |-> FALSE,
     _geofence_update_counter |-> 0]

load_geofence_stats(s, ok) ==
    IF dm_read_ok(s, DM_KEY_FENCE_POINTS, 0, ok)
    THEN LET stats == dm_read_value(s, DM_KEY_FENCE_POINTS, 0)
         IN  [s EXCEPT !.st._count[MAV_MISSION_TYPE_FENCE] = stats.num_items,
                       !.st._geofence_update_counter = stats.update_counter]
    ELSE s

load_safepoint_stats(s, ok) ==
    IF dm_read_ok(s, DM_KEY_SAFE_POINTS, 0, ok)
    THEN LET stats == dm_read_value(s, DM_KEY_SAFE_POINTS, 0)
         IN  [s EXCEPT !.st._count[MAV_MISSION_TYPE_RALLY] = stats.num_items]
    ELSE s

\* init_offboard_mission() as run by the first object built (_dataman_init false)
init_offboard_mission(s) ==
    LET s1 == IF dm_read_ok(s, DM_KEY_MISSION_STATE, 0, TRUE)
              THEN LET mission_state == dm_read_value(s, DM_KEY_MISSION_STATE, 0)
                   IN  [s EXCEPT !.st._dataman_id = mission_state.dataman_id,
                                 !.st._count[MAV_MISSION_TYPE_MISSION] = mission_state.count,
                                 !.st._current_seq = mission_state.current_seq]
              ELSE s
    IN  load_safepoint_stats(load_geofence_stats(s1, TRUE), TRUE)

---------------------------------------------------------------------------
(* Writing the mission state and the stats *)

\* a mission state update that persists the new dataman id but keeps the old one
\* in memory
update_active_mission_id_kept(s, dataman_id, count, seq, ok) ==
    LET mission == [dataman_id |-> dataman_id, count |-> count, current_seq |-> seq]
    IN  IF dm_write_ok(DM_KEY_MISSION_STATE, 0, ok)
        THEN LET s1 == dm_write(s, DM_KEY_MISSION_STATE, 0, mission, ok)
                 s2 == [s1 EXCEPT !.st._count[MAV_MISSION_TYPE_MISSION] = count,
                                  !.st._current_seq = seq,
                                  !.ret = PX4_OK]
             IN  Emit(s2, [msg |-> "OFFBOARD_MISSION", mission |-> mission])
        ELSE [filesystem_error(s, "Mission storage: Unable to write to microSD")
                EXCEPT !.ret = PX4_ERROR]

update_active_mission(s, dataman_id, count, seq, ok) ==
    LET mission == [dataman_id |-> dataman_id, count |-> count, current_seq |-> seq]
    IN  IF dm_write_ok(DM_KEY_MISSION_STATE, 0, ok)
        THEN LET s1 == dm_write(s, DM_KEY_MISSION_STATE, 0, mission, ok)
                 s2 == [s1 EXCEPT !.st._dataman_id = dataman_id,
                                  !.st._count[MAV_MISSION_TYPE_MISSION] = count,
                                  !.st._current_seq = seq,
                                  !.me._my_dataman_id = dataman_id,
                                  !.ret = PX4_OK]
             IN  Emit(s2, [msg |-> "OFFBOARD_MISSION", mission |-> mission])
        ELSE [filesystem_error(s, "Mission storage: Unable to write to microSD")
                EXCEPT !.ret = PX4_ERROR]

\* ++_geofence_update_counter on a uint16_t
NextUpdateCounter(c) == (c + 1) % UINT16

\* a fence stats update that leaves the update counter as it is
update_geofence_count_counter_kept(s, count, ok) ==
    LET stats == [num_items |-> count, update_counter |-> s.st._geofence_update_counter]
    IN  IF dm_write_ok(DM_KEY_FENCE_POINTS, 0, ok)
        THEN [dm_write(s, DM_KEY_FENCE_POINTS, 0, stats, ok)
                EXCEPT !.st._count[MAV_MISSION_TYPE_FENCE] = count, !.ret = PX4_OK]
        ELSE [filesystem_error(s, "Mission storage: Unable to write to microSD")
                EXCEPT !.ret = PX4_ERROR]

update_geofence_count(s, count, ok) ==
    LET c == NextUpdateCounter(s.st._geofence_update_counter)
        stats == [num_items |-> count, update_counter |-> c]
        s1 == [s EXCEPT !.st._geofence_update_counter = c]
    IN  IF dm_write_ok(DM_KEY_FENCE_POINTS, 0, ok)
        THEN [dm_write(s1, DM_KEY_FENCE_POINTS, 0, stats, ok)
                EXCEPT !.st._count[MAV_MISSION_TYPE_FENCE] = count, !.ret = PX4_OK]
        ELSE [filesystem_error(s1, "Mission storage: Unable to write to microSD")
                EXCEPT !.ret = PX4_ERROR]

\* stats.update_counter is not set here: the struct is not initialised, and the
\* field is never read back from the safe points stats
update_safepoint_count(s, count, ok) ==
    LET stats == [num_items |-> count]
    IN  IF dm_write_ok(DM_KEY_SAFE_POINTS, 0, ok)
        THEN [dm_write(s, DM_KEY_SAFE_POINTS, 0, stats, ok)
                EXCEPT !.st._count[MAV_MISSION_TYPE_RALLY] = count, !.ret = PX4_OK]
        ELSE [filesystem_error(s, "Mission storage: Unable to write to microSD")
                EXCEPT !.ret = PX4_ERROR]

---------------------------------------------------------------------------
(* Sending *)

send_mission_ack(s, sysid, compid, type) ==
    Emit(s, [msg |-> "MISSION_ACK", chan |-> s.chan,
             target_system |-> sysid, target_component |-> compid,
             type |-> type, mission_type |-> s.me._mission_type])

\* the uint16_t parameter of send_mission_current / send_mission_item
AsUint16(n) == n % UINT16

\* a send_mission_current that reports index 0 of an empty mission as out of bounds
send_mission_current_loud(s, seq) ==
    IF seq < s.st._count[MAV_MISSION_TYPE_MISSION]
    THEN Emit(s, [msg |-> "MISSION_CURRENT", chan |-> s.chan, seq |-> seq])
    ELSE send_statustext_critical(s, "ERROR: wp index out of bounds")

send_mission_current(s, seq) ==
    LET item_count == s.st._count[MAV_MISSION_TYPE_MISSION]
    IN  IF seq < item_count
        THEN Emit(s, [msg |-> "MISSION_CURRENT", chan |-> s.chan, seq |-> seq])
        ELSE IF seq = 0 /\ item_count = 0
        THEN s
        ELSE send_statustext_critical(s, "ERROR: wp index out of bounds")

send_mission_count(s, sysid, compid, count, mission_type) ==
    Emit([s EXCEPT !.me._time_last_sent = hrt_absolute_time],
         [msg |-> "MISSION_COUNT", chan |-> s.chan,
          target_system |-> sysid, target_component |-> compid,
          count |-> count, mission_type |-> mission_type])

\* a capacity that is one item too large
current_max_item_count_plus_one(s) ==
    IF s.me._mission_type \notin StoredTypes THEN 0 ELSE MAX_COUNT[s.me._mission_type] + 1

current_max_item_count(s) ==
    IF s.me._mission_type \notin StoredTypes THEN 0 ELSE MAX_COUNT[s.me._mission_type]

current_item_count(s) ==
    IF s.me._mission_type \notin StoredTypes THEN 0 ELSE s.st._count[s.me._mission_type]

send_mission_request(s, sysid, compid, seq) ==
    IF seq < current_max_item_count(s)
    THEN Emit([s EXCEPT !.me._time_last_sent = hrt_absolute_time],
              [msg |-> IF s.me._int_mode THEN "MISSION_REQUEST_INT" ELSE "MISSION_REQUEST",
               chan |-> s.chan,
               target_system |-> sysid, target_component |-> compid,
               seq |-> seq, mission_type |-> s.me._mission_type])
    ELSE send_statustext_critical(s, "ERROR: Waypoint index exceeds list capacity")

send_mission_item_reached(s, seq) ==
    Emit(s, [msg |-> "MISSION_ITEM_REACHED", chan |-> s.chan, seq |-> seq])

\* a switch to IDLE that forgets the fence lock
switch_to_idle_state_keeping_lock(s) ==
    [s EXCEPT !.me._state = MAVLINK_WPM_STATE_IDLE]

switch_to_idle_state(s) ==
    [s EXCEPT !.me._geofence_locked = FALSE, !.me._state = MAVLINK_WPM_STATE_IDLE]

---------------------------------------------------------------------------
(* Item codec *)

MAV_FRAME_GLOBAL == "MAV_FRAME_GLOBAL"
MAV_FRAME_GLOBAL_RELATIVE_ALT == "MAV_FRAME_GLOBAL_RELATIVE_ALT"
MAV_FRAME_GLOBAL_INT == "MAV_FRAME_GLOBAL_INT"
MAV_FRAME_GLOBAL_RELATIVE_ALT_INT == "MAV_FRAME_GLOBAL_RELATIVE_ALT_INT"
MAV_FRAME_MISSION == "MAV_FRAME_MISSION"
MAV_FRAME_LOCAL_NED == "MAV_FRAME_LOCAL_NED"

FenceVertexCmds == {"NAV_FENCE_POLYGON_VERTEX_INCLUSION", "NAV_FENCE_POLYGON_VERTEX_EXCLUSION"}
FenceCircleCmds == {"NAV_FENCE_CIRCLE_INCLUSION", "NAV_FENCE_CIRCLE_EXCLUSION"}

\* the commands the MAV_FRAME_MISSION branch of the parser passes through
ParseMissionFrameCmds ==
    {"DO_CHANGE_SPEED", "DO_SET_SERVO", "DO_LAND_START", "DO_TRIGGER_CONTROL",
     "DO_DIGICAM_CONTROL", "DO_MOUNT_CONFIGURE", "DO_MOUNT_CONTROL",
     "IMAGE_START_CAPTURE", "IMAGE_STOP_CAPTURE", "VIDEO_START_CAPTURE",
     "VIDEO_STOP_CAPTURE", "DO_SET_ROI", "ROI", "DO_SET_CAM_TRIGG_DIST",
     "DO_SET_CAM_TRIGG_INTERVAL", "SET_CAMERA_MODE", "DO_VTOL_TRANSITION",
     "NAV_DELAY", "NAV_RETURN_TO_LAUNCH"}

\* the commands the MAV_FRAME_MISSION branch of the formatter passes through
FormatMissionFrameCmds ==
    {"DO_CHANGE_SPEED", "DO_SET_SERVO", "DO_LAND_START", "DO_TRIGGER_CONTROL",
     "DO_DIGICAM_CONTROL", "IMAGE_START_CAPTURE", "IMAGE_STOP_CAPTURE",
     "VIDEO_START_CAPTURE", "VIDEO_STOP_CAPTURE", "DO_MOUNT_CONFIGURE",
     "DO_MOUNT_CONTROL", "DO_SET_ROI", "ROI", "DO_SET_CAM_TRIGG_DIST",
     "DO_SET_CAM_TRIGG_INTERVAL", "SET_CAMERA_MODE", "DO_VTOL_TRANSITION"}

\* struct mission_item_s mission_item = {}.  time_inside, pitch_min and
\* circle_radius share their storage: the field u holds whichever was set last.
\* lat and lon are in 1e-7 degrees, angles in units of pi/180 rad.
ZeroItem ==
    [nav_cmd |-> "NAV_CMD_INVALID", frame |-> "0", lat |-> 0, lon |-> 0, altitude |-> 0,
     altitude_is_relative |-> FALSE, u |-> 0, acceptance_radius |-> 0,
     loiter_radius |-> 0, loiter_exit_xtrack |-> FALSE, force_heading |-> FALSE,
     yaw |-> 0, vertex_count |-> 0, do_jump_mission_index |-> 0,
     do_jump_repeat_count |-> 0, do_jump_current_count |-> 0,
     autocontinue |-> FALSE, origin |-> "0", params |-> <<0, 0, 0, 0, 0, 0, 0>>]

\* degrees in one degree-sized unit of 1e-7 degrees
E7 == 10000000

\* _wrap_pi(deg * M_DEG_TO_RAD_F), in units of pi/180 rad: into (-180, 180]
WrapPi(a) ==
    LET m == a % 360
    IN  IF m > 180 THEN m - 360 ELSE m

\* (uint16_t)(param1 + 0.5f) for the whole numbers the model sends
RoundUint16(p) == p % UINT16

BoolToFloat(b) == IF b THEN 1 ELSE 0

\* parse_mavlink_mission_item(): [ret, item, int_mode]
parse_mavlink_mission_item(int_mode, wp) ==
    LET globalFrame == wp.frame \in {MAV_FRAME_GLOBAL, MAV_FRAME_GLOBAL_RELATIVE_ALT}
        intFrame == wp.frame \in {MAV_FRAME_GLOBAL_INT, MAV_FRAME_GLOBAL_RELATIVE_ALT_INT}
    IN  IF globalFrame \/ (int_mode /\ intFrame)
        THEN LET mode == IF intFrame THEN TRUE ELSE int_mode
                 i0 == [ZeroItem EXCEPT
                          !.lat = IF mode THEN wp.x ELSE wp.x * E7,
                          !.lon = IF mode THEN wp.y ELSE wp.y * E7,
                          !.altitude = wp.z,
                          !.altitude_is_relative =
                              wp.frame \in {MAV_FRAME_GLOBAL_RELATIVE_ALT,
                                            MAV_FRAME_GLOBAL_RELATIVE_ALT_INT},
                          !.u = 0]
                 c == wp.command
                 i1 == CASE c = "NAV_WAYPOINT" ->
                              [i0 EXCEPT !.nav_cmd = "NAV_WAYPOINT", !.u = wp.param1,
                                         !.acceptance_radius = wp.param2,
                                         !.yaw = WrapPi(wp.param4)]
                         [] c = "NAV_LOITER_UNLIM" ->
                              [i0 EXCEPT !.nav_cmd = "NAV_LOITER_UNLIM",
                                         !.loiter_radius = wp.param3,
                                         !.yaw = WrapPi(wp.param4)]
                         [] c = "NAV_LOITER_TIME" ->
                              [i0 EXCEPT !.nav_cmd = "NAV_LOITER_TIME", !.u = wp.param1,
                                         !.loiter_radius = wp.param3,
                                         !.loiter_exit_xtrack = (wp.param4 > 0)]
                         [] c = "NAV_LAND" ->
                              [i0 EXCEPT !.nav_cmd = "NAV_LAND", !.yaw = WrapPi(wp.param4)]
                         [] c = "NAV_TAKEOFF" ->
                              [i0 EXCEPT !.nav_cmd = "NAV_TAKEOFF", !.u = wp.param1,
                                         !.yaw = WrapPi(wp.param4)]
                         [] c = "NAV_LOITER_TO_ALT" ->
                              [i0 EXCEPT !.nav_cmd = "NAV_LOITER_TO_ALT",
                                         !.force_heading = (wp.param1 > 0),
                                         !.loiter_radius = wp.param2,
                                         !.loiter_exit_xtrack = (wp.param4 > 0)]
                         [] c \in {"NAV_VTOL_TAKEOFF", "NAV_VTOL_LAND"} ->
                              [i0 EXCEPT !.nav_cmd = c, !.yaw = WrapPi(wp.param4)]
                         [] c = "NAV_FENCE_RETURN_POINT" ->
                              [i0 EXCEPT !.nav_cmd = c]
                         [] c \in FenceVertexCmds ->
                              [i0 EXCEPT !.nav_cmd = c, !.vertex_count = RoundUint16(wp.param1)]
                         [] c \in FenceCircleCmds ->
                              [i0 EXCEPT !.nav_cmd = c, !.u = wp.param1]
                         [] c = "NAV_RALLY_POINT" ->
                              [i0 EXCEPT !.nav_cmd = c]
                         [] OTHER -> i0
             IN  IF i1.nav_cmd = "NAV_CMD_INVALID"
                 THEN [ret |-> MAV_MISSION_UNSUPPORTED, item |-> i1, int_mode |-> mode]
                 ELSE [ret |-> MAV_MISSION_ACCEPTED,
                       item |-> [i1 EXCEPT !.frame = wp.frame,
                                           !.autocontinue = wp.autocontinue,
                                           !.origin = "ORIGIN_MAVLINK"],
                       int_mode |-> mode]
        ELSE IF wp.frame = MAV_FRAME_MISSION
        THEN LET i0 == [ZeroItem EXCEPT
                          !.params = <<wp.param1, wp.param2, wp.param3, wp.param4,
                                       wp.x, wp.y, wp.z>>]
                 c == wp.command
                 i1 == IF c = "DO_JUMP"
                       THEN [i0 EXCEPT !.nav_cmd = "DO_JUMP",
                                       !.do_jump_mission_index = wp.param1,
                                       !.do_jump_current_count = 0,
                                       !.do_jump_repeat_count = wp.param2]
                       ELSE IF c \in ParseMissionFrameCmds
                       THEN [i0 EXCEPT !.nav_cmd = c]
                       ELSE i0
             IN  IF i1.nav_cmd = "NAV_CMD_INVALID"
                 THEN [ret |-> MAV_MISSION_UNSUPPORTED, item |-> i1, int_mode |-> int_mode]
                 ELSE [ret |-> MAV_MISSION_ACCEPTED,
                       item |-> [i1 EXCEPT !.frame = MAV_FRAME_MISSION,
                                           !.autocontinue = wp.autocontinue,
                                           !.origin = "ORIGIN_MAVLINK"],
                       int_mode |-> int_mode]
        ELSE [ret |-> MAV_MISSION_UNSUPPORTED_FRAME, item |-> ZeroItem, int_mode |-> int_mode]

\* the wire fields format_mavlink_mission_item() writes; ret is its return value
format_mavlink_mission_item(int_mode, mission_item) ==
    LET w0 == [frame |-> mission_item.frame, command |-> mission_item.nav_cmd,
               autocontinue |-> mission_item.autocontinue,
               param1 |-> 0, param2 |-> 0, param3 |-> 0, param4 |-> 0,
               x |-> 0, y |-> 0, z |-> 0, ret |-> PX4_OK]
        c == mission_item.nav_cmd
    IN  IF mission_item.frame = MAV_FRAME_MISSION
        THEN LET w1 == [w0 EXCEPT !.param1 = mission_item.params[1],
                                  !.param2 = mission_item.params[2],
                                  !.param3 = mission_item.params[3],
                                  !.param4 = mission_item.params[4],
                                  !.x = mission_item.params[5],
                                  !.y = mission_item.params[6],
                                  !.z = mission_item.params[7]]
             IN  IF c = "DO_JUMP"
                 THEN [w1 EXCEPT !.param1 = mission_item.do_jump_mission_index,
                                 !.param2 = mission_item.do_jump_repeat_count]
                 ELSE IF c \in FormatMissionFrameCmds THEN w1
                 ELSE [w1 EXCEPT !.ret = PX4_ERROR]
        ELSE LET w1 == [w0 EXCEPT
                          !.x = IF int_mode THEN mission_item.lat ELSE mission_item.lat \div E7,
                          !.y = IF int_mode THEN mission_item.lon ELSE mission_item.lon \div E7,
                          !.z = mission_item.altitude,
                          !.frame = IF mission_item.altitude_is_relative
                                    THEN (IF int_mode THEN MAV_FRAME_GLOBAL_RELATIVE_ALT_INT
                                          ELSE MAV_FRAME_GLOBAL_RELATIVE_ALT)
                                    ELSE (IF int_mode THEN MAV_FRAME_GLOBAL_INT
                                          ELSE MAV_FRAME_GLOBAL)]
             IN  CASE c = "NAV_WAYPOINT" ->
                        [w1 EXCEPT !.param1 = mission_item.u,
                                   !.param2 = mission_item.acceptance_radius,
                                   !.param4 = mission_item.yaw]
                   [] c = "NAV_LOITER_UNLIM" ->
                        [w1 EXCEPT !.param3 = mission_item.loiter_radius,
                                   !.param4 = mission_item.yaw]
                   [] c = "NAV_LOITER_TIME" ->
                        [w1 EXCEPT !.param1 = mission_item.u,
                                   !.param3 = mission_item.loiter_radius,
                                   !.param4 = BoolToFloat(mission_item.loiter_exit_xtrack)]
                   [] c = "NAV_LAND" ->
                        [w1 EXCEPT !.param4 = mission_item.yaw]
                   [] c = "NAV_TAKEOFF" ->
                        [w1 EXCEPT !.param1 = mission_item.u, !.param4 = mission_item.yaw]
                   [] c = "NAV_LOITER_TO_ALT" ->
                        [w1 EXCEPT !.param1 = BoolToFloat(mission_item.force_heading),
                                   !.param2 = mission_item.loiter_radius,
                                   !.param4 = BoolToFloat(mission_item.loiter_exit_xtrack)]
                   [] c \in {"NAV_VTOL_TAKEOFF", "NAV_VTOL_LAND"} ->
                        [w1 EXCEPT !.param4 = mission_item.yaw]
                   [] c = "NAV_FENCE_RETURN_POINT" -> w1
                   [] c \in FenceVertexCmds ->
                        [w1 EXCEPT !.param1 = mission_item.vertex_count]
                   [] c \in FenceCircleCmds ->
                        [w1 EXCEPT !.param1 = mission_item.u]
                   [] c = "NAV_RALLY_POINT" -> w1
                   [] OTHER -> [w1 EXCEPT !.ret = PX4_ERROR]

---------------------------------------------------------------------------
(* Sending an item *)

\* mission_fence_point_s: vertex_count and circle_radius share the field v
FencePointOf(mission_item) ==
    [nav_cmd |-> mission_item.nav_cmd, lat |-> mission_item.lat, lon |-> mission_item.lon,
     alt |-> mission_item.altitude,
     v |-> IF mission_item.nav_cmd \in FenceVertexCmds
           THEN mission_item.vertex_count ELSE mission_item.u,
     frame |-> mission_item.frame]

\* mission_save_point_s
SavePointOf(mission_item) ==
    [lat |-> mission_item.lat, lon |-> mission_item.lon, alt |-> mission_item.altitude,
     frame |-> mission_item.frame]

ItemOfFencePoint(p) ==
    LET i == [ZeroItem EXCEPT !.nav_cmd = p.nav_cmd, !.frame = p.frame, !.lat = p.lat,
                              !.lon = p.lon, !.altitude = p.alt]
    IN  IF p.nav_cmd \in FenceVertexCmds
        THEN [i EXCEPT !.vertex_count = p.v]
        ELSE [i EXCEPT !.u = p.v]

ItemOfSavePoint(p) ==
    [ZeroItem EXCEPT !.nav_cmd = "NAV_RALLY_POINT", !.frame = p.frame, !.lat = p.lat,
                     !.lon = p.lon, !.altitude = p.alt]

\* a read place that is one slot too far in the fence and rally stores
ReadPlace_one_too_far(s, seq) ==
    CASE s.me._mission_type = MAV_MISSION_TYPE_MISSION ->
            [item |-> DM_KEY_WAYPOINTS_OFFBOARD(s.st._dataman_id), index |-> seq]
      [] s.me._mission_type = MAV_MISSION_TYPE_FENCE ->
            [item |-> DM_KEY_FENCE_POINTS, index |-> seq + 2]
      [] s.me._mission_type = MAV_MISSION_TYPE_RALLY ->
            [item |-> DM_KEY_SAFE_POINTS, index |-> seq + 2]
      [] OTHER -> [item |-> DM_KEY_MISSION_STATE, index |-> -1]

\* where send_mission_item() reads item seq of the current mission type from
ReadPlace(s, seq) ==
    CASE s.me._mission_type = MAV_MISSION_TYPE_MISSION ->
            [item |-> DM_KEY_WAYPOINTS_OFFBOARD(s.st._dataman_id), index |-> seq]
      [] s.me._mission_type = MAV_MISSION_TYPE_FENCE ->
            [item |-> DM_KEY_FENCE_POINTS, index |-> seq + 1]
      [] s.me._mission_type = MAV_MISSION_TYPE_RALLY ->
            [item |-> DM_KEY_SAFE_POINTS, index |-> seq + 1]
      [] OTHER -> [item |-> DM_KEY_MISSION_STATE, index |-> -1]

send_mission_item(s, sysid, compid, seq, ok) ==
    LET known == s.me._mission_type \in StoredTypes
        place == ReadPlace(s, seq)
        read_success == known /\ dm_read_ok(s, place.item, place.index, ok)
        s0 == IF known THEN s
              ELSE send_statustext_critical(s, "Received unknown mission type, abort.")
    IN  IF read_success
        THEN LET stored == dm_read_value(s, place.item, place.index)
                 mission_item ==
                     CASE s.me._mission_type = MAV_MISSION_TYPE_MISSION -> stored
                       [] s.me._mission_type = MAV_MISSION_TYPE_FENCE -> ItemOfFencePoint(stored)
                       [] OTHER -> ItemOfSavePoint(stored)
                 wp == format_mavlink_mission_item(s.me._int_mode, mission_item)
             IN  Emit([s0 EXCEPT !.me._time_last_sent = hrt_absolute_time],
                      [msg |-> IF s.me._int_mode THEN "MISSION_ITEM_INT" ELSE "MISSION_ITEM",
                       chan |-> s.chan,
                       target_system |-> sysid, target_component |-> compid,
                       seq |-> seq,
                       current |-> (s.st._current_seq = seq),
                       frame |-> wp.frame, command |-> wp.command,
                       autocontinue |-> wp.autocontinue,
                       param1 |-> wp.param1, param2 |-> wp.param2,
                       param3 |-> wp.param3, param4 |-> wp.param4,
                       x |-> wp.x, y |-> wp.y, z |-> wp.z])
        ELSE filesystem_error(
                 send_mission_ack(s0, s.me._transfer_partner_sysid,
                                  s.me._transfer_partner_compid, MAV_MISSION_ERROR),
                 "Mission storage: Unable to read from microSD")

---------------------------------------------------------------------------
(* Inbound messages *)

CHECK_SYSID_COMPID_MISSION(m) ==
    /\ m.target_system = OurSysid
    /\ m.target_component \in {OurCompid, MAV_COMP_ID_MISSIONPLANNER, MAV_COMP_ID_ALL}

\* a partner comparison that takes every sender for the partner
FromPartner_anyone(s, m) == m.sysid = m.sysid

FromPartner(s, m) ==
    m.sysid = s.me._transfer_partner_sysid /\ m.compid = s.me._transfer_partner_compid

Received(s) == [s EXCEPT !.me._time_last_recv = hrt_absolute_time]

\* an ack handler that never changes the message variant
handle_mission_ack_mode_kept(s, wpa) ==
    IF ~CHECK_SYSID_COMPID_MISSION(wpa) THEN s
    ELSE IF ~FromPartner(s, wpa)
    THEN send_statustext_critical(s, "REJ. WP CMD: partner id mismatch")
    ELSE IF s.me._state = MAVLINK_WPM_STATE_SENDLIST /\ s.me._mission_type = wpa.mission_type
    THEN LET s1 == Received(s)
             s2 == IF s1.me._transfer_seq = current_item_count(s1) THEN s1
                   ELSE send_statustext_critical(s1, "WPM: ERR: not all items sent -> IDLE")
         IN  switch_to_idle_state(s2)
    ELSE s

handle_mission_ack(s, wpa) ==
    IF ~CHECK_SYSID_COMPID_MISSION(wpa) THEN s
    ELSE IF ~FromPartner(s, wpa)
    THEN send_statustext_critical(s, "REJ. WP CMD: partner id mismatch")
    ELSE IF s.me._state = MAVLINK_WPM_STATE_SENDLIST /\ s.me._mission_type = wpa.mission_type
    THEN LET s1 == Received(s)
             s2 == IF s1.me._transfer_seq = current_item_count(s1) THEN s1
                   ELSE send_statustext_critical(s1, "WPM: ERR: not all items sent -> IDLE")
         IN  switch_to_idle_state(s2)
    ELSE IF s.me._state = MAVLINK_WPM_STATE_GETLIST
    THEN IF s.me._int_mode /\ wpa.type # MAV_MISSION_ACCEPTED
         THEN [s EXCEPT !.me._int_mode = FALSE]
         ELSE IF wpa.type # MAV_MISSION_ACCEPTED
         THEN [s EXCEPT !.me._int_mode = TRUE]
         ELSE s
    ELSE s

handle_mission_set_current(s, wpc, ok) ==
    IF ~CHECK_SYSID_COMPID_MISSION(wpc) THEN s
    ELSE IF s.me._state # MAVLINK_WPM_STATE_IDLE
    THEN send_statustext_critical(s, "WPM: IGN WP CURR CMD: Busy")
    ELSE LET s1 == Received(s)
         IN  IF wpc.seq < s1.st._count[MAV_MISSION_TYPE_MISSION]
             THEN LET s2 == update_active_mission(s1, s1.st._dataman_id,
                                s1.st._count[MAV_MISSION_TYPE_MISSION], wpc.seq, ok)
                  IN  IF s2.ret = PX4_OK THEN s2
                      ELSE send_statustext_critical(s2, "WPM: WP CURR CMD: Error setting ID")
             ELSE send_statustext_critical(s1, "WPM: WP CURR CMD: Not in list")

handle_mission_request_list(s, wprl, ok) ==
    IF ~CHECK_SYSID_COMPID_MISSION(wprl) THEN s
    ELSE IF s.me._state = MAVLINK_WPM_STATE_IDLE
            \/ (s.me._state = MAVLINK_WPM_STATE_SENDLIST
                /\ s.me._mission_type = wprl.mission_type)
    THEN LET s1 == [Received(s) EXCEPT !.me._state = MAVLINK_WPM_STATE_SENDLIST,
                                       !.me._mission_type = wprl.mission_type]
             s2 == CASE wprl.mission_type = MAV_MISSION_TYPE_FENCE -> load_geofence_stats(s1, ok)
                     [] wprl.mission_type = MAV_MISSION_TYPE_RALLY -> load_safepoint_stats(s1, ok)
                     [] OTHER -> s1
             s3 == [s2 EXCEPT !.me._transfer_seq = 0,
                              !.me._transfer_count = current_item_count(s2),
                              !.me._transfer_partner_sysid = wprl.sysid,
                              !.me._transfer_partner_compid = wprl.compid]
         IN  send_mission_count(s3, wprl.sysid, wprl.compid, s3.me._transfer_count,
                                s3.me._mission_type)
    ELSE send_statustext_critical(s, "IGN REQUEST LIST: Busy")

\* the error exit of handle_mission_request_both()
RequestUnexpected(s) ==
    send_statustext_critical(
        send_mission_ack(switch_to_idle_state(s), s.me._transfer_partner_sysid,
                         s.me._transfer_partner_compid, MAV_MISSION_ERROR),
        "WPM: REJ. CMD: Req. WP was unexpected")

handle_mission_request_both(s, wpr, ok) ==
    IF ~CHECK_SYSID_COMPID_MISSION(wpr) THEN s
    ELSE IF ~FromPartner(s, wpr)
    THEN send_statustext_critical(s, "WPM: REJ. CMD: partner id mismatch")
    ELSE IF s.me._state = MAVLINK_WPM_STATE_SENDLIST
    THEN IF s.me._mission_type # wpr.mission_type THEN s
         ELSE LET s1 == Received(s)
                  seq == s1.me._transfer_seq
              IN  IF (wpr.seq = seq /\ seq < s1.me._transfer_count) \/ wpr.seq = seq - 1
                  THEN LET s2 == IF wpr.seq = seq /\ seq < s1.me._transfer_count
                                 THEN [s1 EXCEPT !.me._transfer_seq = seq + 1]
                                 ELSE s1
                       IN  IF wpr.seq < current_item_count(s2)
                           THEN send_mission_item(s2, s2.me._transfer_partner_sysid,
                                                  s2.me._transfer_partner_compid, wpr.seq, ok)
                           ELSE RequestUnexpected(s2)
                  ELSE RequestUnexpected(s1)
    ELSE IF s.me._state = MAVLINK_WPM_STATE_IDLE THEN s
    ELSE send_statustext_critical(s, "WPM: REJ. CMD: Busy")

\* a float request handler that takes any requested item for the expected one
handle_mission_request_any_seq(s, wpr, ok) ==
    handle_mission_request_both([s EXCEPT !.me._int_mode = FALSE, !.me._transfer_seq = wpr.seq],
                                wpr, ok)

handle_mission_request(s, wpr, ok) ==
    handle_mission_request_both([s EXCEPT !.me._int_mode = FALSE], wpr, ok)

\* a REQUEST_INT handler that leaves the mode as it is
handle_mission_request_int_mode_kept(s, wpr, ok) ==
    handle_mission_request_both(s, wpr, ok)

handle_mission_request_int(s, wpr, ok) ==
    handle_mission_request_both([s EXCEPT !.me._int_mode = TRUE], wpr, ok)

\* the ack that ends a handler: send_mission_ack to the transfer partner
AckPartner(s, type) ==
    send_mission_ack(s, s.me._transfer_partner_sysid, s.me._transfer_partner_compid, type)

\* io.hdr: the mission state or stats write succeeds; io.lock: dm_lock returns 0
handle_mission_count(s, wpc, io) ==
    IF ~CHECK_SYSID_COMPID_MISSION(wpc) THEN s
    ELSE IF s.me._state = MAVLINK_WPM_STATE_IDLE
    THEN LET s1 == Received(s)
         IN  IF s1.st._transfer_in_progress
             THEN AckPartner(s1, MAV_MISSION_ERROR)
             ELSE LET s2 == [s1 EXCEPT !.st._transfer_in_progress = TRUE,
                                       !.me._mission_type = wpc.mission_type]
                  IN  IF wpc.count > current_max_item_count(s2)
                      THEN [AckPartner(s2, MAV_MISSION_NO_SPACE)
                              EXCEPT !.st._transfer_in_progress = FALSE]
                      ELSE IF wpc.count = 0
                      THEN LET s3 ==
                                 CASE wpc.mission_type = MAV_MISSION_TYPE_MISSION ->
                                        update_active_mission(s2,
                                            IF s2.st._dataman_id = 0 THEN 1 ELSE 0, 0, 0, io.hdr)
                                   [] wpc.mission_type = MAV_MISSION_TYPE_FENCE ->
                                        update_geofence_count(s2, 0, io.hdr)
                                   [] wpc.mission_type = MAV_MISSION_TYPE_RALLY ->
                                        update_safepoint_count(s2, 0, io.hdr)
                                   [] OTHER -> s2
                           IN  [AckPartner(s3, MAV_MISSION_ACCEPTED)
                                  EXCEPT !.st._transfer_in_progress = FALSE]
                      ELSE LET s3 == [s2 EXCEPT
                                        !.me._state = MAVLINK_WPM_STATE_GETLIST,
                                        !.me._transfer_seq = 0,
                                        !.me._transfer_partner_sysid = wpc.sysid,
                                        !.me._transfer_partner_compid = wpc.compid,
                                        !.me._transfer_count = wpc.count,
                                        !.me._transfer_dataman_id =
                                            IF s2.st._dataman_id = 0 THEN 1 ELSE 0,
                                        !.me._transfer_current_seq = -1]
                               s4 == IF s3.me._mission_type = MAV_MISSION_TYPE_FENCE /\ io.lock
                                     THEN [s3 EXCEPT !.me._geofence_locked = TRUE]
                                     ELSE s3
                           IN  send_mission_request(s4, s4.me._transfer_partner_sysid,
                                   s4.me._transfer_partner_compid, s4.me._transfer_seq)
    ELSE IF s.me._state = MAVLINK_WPM_STATE_GETLIST
    THEN LET s1 == Received(s)
         IN  IF s1.me._transfer_seq = 0
             THEN send_mission_request(s1, s1.me._transfer_partner_sysid,
                      s1.me._transfer_partner_compid, s1.me._transfer_seq)
             ELSE send_statustext_critical(s1, "WPM: REJ. CMD: Busy")
    ELSE send_statustext_critical(s, "WPM: IGN MISSION_COUNT: Busy")

\* a failure path that leaves the transfer flag set
ItemFailed_transfer_left_open(s, type) ==
    switch_to_idle_state(AckPartner(s, type))

\* a failure path that answers and keeps waiting for items
ItemFailed_still_receiving(s, type) ==
    [AckPartner(s, type) EXCEPT !.st._transfer_in_progress = FALSE]

\* the error exit of handle_mission_item_both()
ItemFailed(s, type) ==
    [switch_to_idle_state(AckPartner(s, type)) EXCEPT !.st._transfer_in_progress = FALSE]

\* a hardening list that lets rally points through
CrossTypeCmds_without_rally == FenceVertexCmds \cup FenceCircleCmds

CrossTypeCmds ==
    FenceVertexCmds \cup FenceCircleCmds \cup {"NAV_RALLY_POINT"}

\* the switch (_mission_type) that stores the item: [s, write_failed, check_failed]
StoreItem(s, wp, mission_item, io) ==
    CASE s.me._mission_type = MAV_MISSION_TYPE_MISSION ->
            IF mission_item.nav_cmd \in CrossTypeCmds
            THEN [s |-> s, write_failed |-> FALSE, check_failed |-> TRUE]
            ELSE LET dm_item == DM_KEY_WAYPOINTS_OFFBOARD(s.me._transfer_dataman_id)
                     failed == ~dm_write_ok(dm_item, wp.seq, io.wr)
                     s1 == dm_write(s, dm_item, wp.seq, mission_item, io.wr)
                 IN  [s |-> IF ~failed /\ wp.current
                            THEN [s1 EXCEPT !.me._transfer_current_seq = wp.seq]
                            ELSE s1,
                      write_failed |-> failed, check_failed |-> FALSE]
      [] s.me._mission_type = MAV_MISSION_TYPE_FENCE ->
            IF mission_item.nav_cmd \in FenceVertexCmds /\ mission_item.vertex_count < 3
            THEN [s |-> update_geofence_count(s, 0, io.hdr),
                  write_failed |-> FALSE, check_failed |-> TRUE]
            ELSE [s |-> dm_write(s, DM_KEY_FENCE_POINTS, wp.seq + 1,
                                 FencePointOf(mission_item), io.wr),
                  write_failed |-> ~dm_write_ok(DM_KEY_FENCE_POINTS, wp.seq + 1, io.wr),
                  check_failed |-> FALSE]
      [] s.me._mission_type = MAV_MISSION_TYPE_RALLY ->
            [s |-> dm_write(s, DM_KEY_SAFE_POINTS, wp.seq + 1,
                            SavePointOf(mission_item), io.wr),
             write_failed |-> ~dm_write_ok(DM_KEY_SAFE_POINTS, wp.seq + 1, io.wr),
             check_failed |-> FALSE]
      [] OTHER ->
            [s |-> send_statustext_critical(s, "Received unknown mission type, abort."),
             write_failed |-> FALSE, check_failed |-> FALSE]

\* an end of an upload that leaves the transfer flag set
FinishUpload_transfer_left_open(s, io) ==
    LET s1 == CASE s.me._mission_type = MAV_MISSION_TYPE_MISSION ->
                     update_active_mission(s, s.me._transfer_dataman_id,
                         s.me._transfer_count, s.me._transfer_current_seq, io.hdr)
                [] s.me._mission_type = MAV_MISSION_TYPE_FENCE ->
                     update_geofence_count(s, s.me._transfer_count, io.hdr)
                [] s.me._mission_type = MAV_MISSION_TYPE_RALLY ->
                     update_safepoint_count(s, s.me._transfer_count, io.hdr)
                [] OTHER -> [s EXCEPT !.ret = 0]
        s2 == switch_to_idle_state(s1)
    IN  IF s1.ret = PX4_OK
        THEN AckPartner(s2, MAV_MISSION_ACCEPTED)
        ELSE AckPartner(s2, MAV_MISSION_ERROR)

\* the end of an upload: every item is stored
FinishUpload(s, io) ==
    LET s1 == CASE s.me._mission_type = MAV_MISSION_TYPE_MISSION ->
                     update_active_mission(s, s.me._transfer_dataman_id,
                         s.me._transfer_count, s.me._transfer_current_seq, io.hdr)
                [] s.me._mission_type = MAV_MISSION_TYPE_FENCE ->
                     update_geofence_count(s, s.me._transfer_count, io.hdr)
                [] s.me._mission_type = MAV_MISSION_TYPE_RALLY ->
                     update_safepoint_count(s, s.me._transfer_count, io.hdr)
                [] OTHER -> [s EXCEPT !.ret = 0]
        s2 == switch_to_idle_state(s1)
        s3 == IF s1.ret = PX4_OK
              THEN AckPartner(s2, MAV_MISSION_ACCEPTED)
              ELSE AckPartner(s2, MAV_MISSION_ERROR)
    IN  [s3 EXCEPT !.st._transfer_in_progress = FALSE]

handle_mission_item_both(s, wp, io) ==
    IF ~CHECK_SYSID_COMPID_MISSION(wp) THEN s
    ELSE IF wp.mission_type # s.me._mission_type THEN s
    ELSE IF s.me._state = MAVLINK_WPM_STATE_IDLE
    THEN send_statustext_critical(s, "IGN MISSION_ITEM: No transfer")
    ELSE IF s.me._state # MAVLINK_WPM_STATE_GETLIST
    THEN send_statustext_critical(s, "IGN MISSION_ITEM: Busy")
    ELSE LET s1 == Received(s)
         IN  IF wp.seq # s1.me._transfer_seq THEN s1
             ELSE LET parsed == parse_mavlink_mission_item(s1.me._int_mode, wp)
                      s2 == [s1 EXCEPT !.me._int_mode = parsed.int_mode]
                  IN  IF parsed.ret # PX4_OK
                      THEN ItemFailed(send_statustext_critical(s2, "IGN MISSION_ITEM: Busy"),
                                      parsed.ret)
                      ELSE LET stored == StoreItem(s2, wp, parsed.item, io)
                           IN  IF stored.write_failed \/ stored.check_failed
                               THEN LET s3 == AckPartner(stored.s, MAV_MISSION_ERROR)
                                        s4 == IF stored.write_failed
                                              THEN send_statustext_critical(s3,
                                                       "Unable to write on micro SD")
                                              ELSE s3
                                    IN  [switch_to_idle_state(s4)
                                           EXCEPT !.st._transfer_in_progress = FALSE]
                               ELSE LET s3 == IF wp.current
                                              THEN [stored.s EXCEPT
                                                      !.me._transfer_current_seq = wp.seq]
                                              ELSE stored.s
                                        s4 == [s3 EXCEPT !.me._transfer_seq = wp.seq + 1]
                                    IN  IF s4.me._transfer_seq = s4.me._transfer_count
                                        THEN FinishUpload(s4, io)
                                        ELSE send_mission_request(s4,
                                                 s4.me._transfer_partner_sysid,
                                                 s4.me._transfer_partner_compid,
                                                 s4.me._transfer_seq)

\* a float item handler that takes an item with any sequence number for the
\* awaited one
handle_mission_item_any_seq(s, wp, io) ==
    handle_mission_item_both([s EXCEPT !.me._int_mode = FALSE, !.me._transfer_seq = wp.seq],
                             wp, io)

handle_mission_item(s, wp, io) ==
    handle_mission_item_both([s EXCEPT !.me._int_mode = FALSE], wp, io)

handle_mission_item_int(s, wp, io) ==
    handle_mission_item_both([s EXCEPT !.me._int_mode = TRUE], wp, io)

\* ret = a() || ret on ints
LogicalOr(a, b) == IF a # 0 \/ b # 0 THEN 1 ELSE 0

\* io.hdr, io.hdr2, io.hdr3: the mission state, fence stats and safe point stats writes
handle_mission_clear_all(s, wpca, io) ==
    IF ~CHECK_SYSID_COMPID_MISSION(wpca) THEN s
    ELSE IF s.me._state # MAVLINK_WPM_STATE_IDLE
    THEN send_statustext_critical(s, "WPM: IGN CLEAR CMD: Busy")
    ELSE LET s1 == [Received(s) EXCEPT !.me._mission_type = wpca.mission_type, !.ret = 0]
             toggled == IF s1.st._dataman_id = 0 THEN 1 ELSE 0
             s2 == CASE wpca.mission_type = MAV_MISSION_TYPE_MISSION ->
                          update_active_mission(s1, toggled, 0, 0, io.hdr)
                     [] wpca.mission_type = MAV_MISSION_TYPE_FENCE ->
                          update_geofence_count(s1, 0, io.hdr2)
                     [] wpca.mission_type = MAV_MISSION_TYPE_RALLY ->
                          update_safepoint_count(s1, 0, io.hdr3)
                     [] wpca.mission_type = MAV_MISSION_TYPE_ALL ->
                          LET a == update_active_mission(s1, toggled, 0, 0, io.hdr)
                              b == update_geofence_count(a, 0, io.hdr2)
                              b1 == [b EXCEPT !.ret = LogicalOr(b.ret, a.ret)]
                              c == update_safepoint_count(b1, 0, io.hdr3)
                          IN  [c EXCEPT !.ret = LogicalOr(c.ret, b1.ret)]
                     [] OTHER -> s1
         IN  IF s2.ret = PX4_OK
             THEN AckPartner(s2, MAV_MISSION_ACCEPTED)
             ELSE AckPartner(s2, MAV_MISSION_ERROR)

---------------------------------------------------------------------------
(* send() *)

NoResult ==
    [updated |-> FALSE, seq_current |-> 0, reached |-> FALSE, seq_reached |-> 0,
     item_do_jump_changed |-> FALSE, item_changed_index |-> 0]

\* the branch of send() that looks for timed-out operations
check_timeouts(s, io) ==
    IF s.me._state = MAVLINK_WPM_STATE_GETLIST /\ Expired(s.me._time_last_sent, RetryTimeout)
    THEN send_mission_request(s, s.me._transfer_partner_sysid,
                              s.me._transfer_partner_compid, s.me._transfer_seq)
    ELSE IF s.me._state = MAVLINK_WPM_STATE_SENDLIST
            /\ Expired(s.me._time_last_sent, RetryTimeout)
    THEN IF s.me._transfer_seq = 0
         THEN send_mission_count(s, s.me._transfer_partner_sysid,
                  s.me._transfer_partner_compid, s.me._transfer_count, s.me._mission_type)
         ELSE send_mission_item(s, s.me._transfer_partner_sysid,
                  s.me._transfer_partner_compid, s.me._transfer_seq - 1, io.rd2)
    ELSE IF s.me._state # MAVLINK_WPM_STATE_IDLE /\ Expired(s.me._time_last_recv, ActionTimeout)
    THEN [switch_to_idle_state(send_statustext_critical(s, "Operation timeout"))
            EXCEPT !.st._transfer_in_progress = FALSE]
    ELSE IF s.me._state = MAVLINK_WPM_STATE_IDLE
    THEN [s EXCEPT !.me._time_last_sent = NoTime, !.me._time_last_recv = NoTime]
    ELSE s

\* send(now).  mission_result is NoResult when orb_check() reports no update;
\* io.rate is what _slow_rate_limiter.check(now) answers
send(s, mission_result, io) ==
    LET s1 ==
          IF mission_result.updated
          THEN LET a == [s EXCEPT !.st._current_seq = mission_result.seq_current]
                   b == IF mission_result.reached
                        THEN send_mission_item_reached(
                                 [a EXCEPT !.me._time_last_reached = hrt_absolute_time,
                                           !.st._last_reached = mission_result.seq_reached],
                                 AsUint16(mission_result.seq_reached))
                        ELSE [a EXCEPT !.st._last_reached = -1]
                   c == send_mission_current(b, AsUint16(b.st._current_seq))
               IN  IF mission_result.item_do_jump_changed
                   THEN send_mission_item(c, c.me._transfer_partner_sysid,
                            c.me._transfer_partner_compid,
                            AsUint16(mission_result.item_changed_index), io.rd)
                   ELSE c
          ELSE IF io.rate
          THEN LET a == send_mission_current(s, AsUint16(s.st._current_seq))
               IN  IF a.st._last_reached >= 0 /\ a.me._time_last_reached # NoTime
                      /\ a.me._time_last_reached < ReachedWindow
                   THEN send_mission_item_reached(a, AsUint16(a.st._last_reached))
                   ELSE a
          ELSE s
    IN  check_timeouts(s1, io)

check_active_mission(s) ==
    IF s.me._my_dataman_id # s.st._dataman_id
    THEN send_mission_count([s EXCEPT !.me._my_dataman_id = s.st._dataman_id],
             s.me._transfer_partner_sysid, s.me._transfer_partner_compid,
             s.st._count[MAV_MISSION_TYPE_MISSION], MAV_MISSION_TYPE_MISSION)
    ELSE s

---------------------------------------------------------------------------
(* The environment: what the ground stations, the navigator and the storage do *)

Gcs1 == [sysid |-> 255, compid |-> 190]
Gcs2 == [sysid |-> 254, compid |-> 190]

ToUs == [target_system |-> OurSysid, target_component |-> OurCompid]
\* addresses of another system and of another component of this system
ToOtherSystem == [target_system |-> OurSysid + 1, target_component |-> OurCompid]
ToOtherComponent == [target_system |-> OurSysid, target_component |-> OurCompid + 1]

\* the payload of a MISSION_ITEM / MISSION_ITEM_INT
Payload(command, frame, x, param1, current) ==
    [command |-> command, frame |-> frame, x |-> x, y |-> 0, z |-> 0,
     param1 |-> param1, param2 |-> 0, param3 |-> 0, param4 |-> 0,
     autocontinue |-> TRUE, current |-> current]

\* waypoints at four places; only WpA is marked as the current item
WpA == Payload("NAV_WAYPOINT", MAV_FRAME_GLOBAL, 1, 0, TRUE)
WpB == Payload("NAV_WAYPOINT", MAV_FRAME_GLOBAL_RELATIVE_ALT, 2, 0, FALSE)
WpC == Payload("NAV_WAYPOINT", MAV_FRAME_GLOBAL, 3, 0, FALSE)
WpD == Payload("NAV_WAYPOINT", MAV_FRAME_GLOBAL, 4, 0, FALSE)
\* a vertex of a triangle and a vertex of a polygon with two corners
Vertex3 == Payload("NAV_FENCE_POLYGON_VERTEX_INCLUSION", MAV_FRAME_GLOBAL, 1, 3, FALSE)
Vertex2 == Payload("NAV_FENCE_POLYGON_VERTEX_INCLUSION", MAV_FRAME_GLOBAL, 1, 2, FALSE)
RallyA == Payload("NAV_RALLY_POINT", MAV_FRAME_GLOBAL, 1, 0, FALSE)
RallyB == Payload("NAV_RALLY_POINT", MAV_FRAME_GLOBAL_RELATIVE_ALT, 2, 0, FALSE)
\* the fence and rally commands, each as an item at one place
FenceAndRallyCmds ==
    {"NAV_FENCE_RETURN_POINT", "NAV_RALLY_POINT"} \cup FenceVertexCmds \cup FenceCircleCmds
FenceOrRally(command) == Payload(command, MAV_FRAME_GLOBAL, 1, 3, FALSE)
\* the fence vertex and the rally point a station puts at place k
VertexAt(k) == Payload("NAV_FENCE_POLYGON_VERTEX_INCLUSION", MAV_FRAME_GLOBAL, k, 3, FALSE)
RallyAt(k) == Payload("NAV_RALLY_POINT", MAV_FRAME_GLOBAL, k, 0, FALSE)
\* the commands the parser knows in a frame with a position
PositionFrameCmds ==
    {"NAV_WAYPOINT", "NAV_LOITER_UNLIM", "NAV_LOITER_TIME", "NAV_LAND", "NAV_TAKEOFF",
     "NAV_LOITER_TO_ALT", "NAV_VTOL_TAKEOFF", "NAV_VTOL_LAND"} \cup FenceAndRallyCmds

\* an item of the float variant and one of the int variant with every
\* parameter set; param4 is an angle of 270 degrees
Full(command, frame) ==
    [command |-> command, frame |-> frame, x |-> 2, y |-> 3, z |-> 4,
     param1 |-> 1, param2 |-> 2, param3 |-> 3, param4 |-> 270,
     autocontinue |-> TRUE, current |-> FALSE]
FullInt(command, frame) == [Full(command, frame) EXCEPT !.x = 2 * E7, !.y = 3 * E7]
\* one item for every command the parser accepts, in a frame it accepts the
\* command in, and two items of the int variant
AcceptedItems ==
    {Full(c, MAV_FRAME_GLOBAL_RELATIVE_ALT) : c \in PositionFrameCmds}
      \cup {Full(c, MAV_FRAME_MISSION) : c \in ParseMissionFrameCmds \cup {"DO_JUMP"}}
AcceptedIntItems ==
    {FullInt("NAV_WAYPOINT", MAV_FRAME_GLOBAL_INT),
     FullInt("NAV_LAND", MAV_FRAME_GLOBAL_RELATIVE_ALT_INT)}
\* a command the parser knows in other frames only
BadMissionCommand == Payload("NAV_WAYPOINT", MAV_FRAME_MISSION, 1, 0, FALSE)
\* a command and a frame the parser does not know
BadCommand == Payload("NAV_SPLINE_WAYPOINT", MAV_FRAME_GLOBAL, 1, 0, FALSE)
BadFrame == Payload("NAV_WAYPOINT", MAV_FRAME_LOCAL_NED, 1, 0, FALSE)
\* int-mode waypoints
WpIntA == Payload("NAV_WAYPOINT", MAV_FRAME_GLOBAL_INT, 5 * E7, 0, TRUE)

Stations == {Gcs1, Gcs2}

\* the navigator publishes a mission result with item seq as the current one
ResultAt(seq) == [NoResult EXCEPT !.updated = TRUE, !.seq_current = seq]

\* the navigator reports that the DO_JUMP counter of item seq has changed
JumpChangedAt(seq) ==
    [ResultAt(0) EXCEPT !.item_do_jump_changed = TRUE, !.item_changed_index = seq]

\* every station offers the payloads S for every sequence number
Every(S) == [g \in Stations |-> [k \in 0..MaxItems |-> S]]

\* one station on channel ch0 that uploads missions without storage faults
EnvBase ==
    [senders |-> [e \in Channels |-> IF e = "ch0" THEN {Gcs1} ELSE {}],
     targets |-> {ToUs},
     types |-> {MAV_MISSION_TYPE_MISSION},
     clear_types |-> {MAV_MISSION_TYPE_MISSION},
     counts |-> 0..(MaxItems + 1),
     seqs |-> 0..(MaxItems - 1),
     items |-> Every({WpA, WpB}),
     int_items |-> Every({}),
     acks |-> {MAV_MISSION_ACCEPTED, MAV_MISSION_ERROR},
     results |-> {NoResult},
     rates |-> {FALSE},
     dts |-> {0, 1},
     wr_oks |-> {TRUE},
     rd_oks |-> {TRUE},
     clear_oks |-> {TRUE},
     follow |-> FALSE,
     watch |-> FALSE,
     tally |-> FALSE,
     lend |-> FALSE]

Scenarios ==
    [\* two channels, one station on each, sharing the process-wide fields; each
     \* station uploads its own two-item mission
     shared |->
        [EnvBase EXCEPT
           !.senders = [e \in Channels |-> IF e = "ch0" THEN {Gcs1} ELSE {Gcs2}],
           !.counts = {MaxItems},
           !.items = [g \in Stations |-> [k \in 0..MaxItems |->
                         IF g = Gcs1 THEN {IF k = 0 THEN WpA ELSE WpB}
                                     ELSE {IF k = 0 THEN WpC ELSE WpD}]]],
     \* uploads of one list type over a storage medium whose writes can fail
     mission |->
        [EnvBase EXCEPT !.items = Every({WpA, WpB, Vertex3, BadCommand, BadFrame}),
                        !.wr_oks = BOOLEAN],
     fence |->
        [EnvBase EXCEPT !.types = {MAV_MISSION_TYPE_FENCE},
                        !.clear_types = {MAV_MISSION_TYPE_FENCE},
                        !.items = Every({Vertex3, Vertex2, BadCommand}),
                        !.wr_oks = BOOLEAN],
     rally |->
        [EnvBase EXCEPT !.types = {MAV_MISSION_TYPE_RALLY},
                        !.clear_types = {MAV_MISSION_TYPE_RALLY},
                        !.items = Every({RallyA, RallyB, BadFrame}),
                        !.wr_oks = BOOLEAN],
     \* uploads and downloads of a mission in both message variants; the variant
     \* heard last is followed
     mode |->
        [EnvBase EXCEPT !.counts = {MaxItems},
                        !.items = Every({WpA}),
                        !.int_items = Every({WpIntA}),
                        !.follow = TRUE],
     \* fence uploads and clears over a medium whose writes can fail
     wrap |->
        [EnvBase EXCEPT !.types = {MAV_MISSION_TYPE_FENCE},
                        !.clear_types = {MAV_MISSION_TYPE_FENCE},
                        !.items = Every({Vertex3, Vertex2}),
                        !.wr_oks = BOOLEAN,
                        !.clear_oks = BOOLEAN],
     \* an upload and downloads of a one-item mission
     live |->
        [EnvBase EXCEPT !.counts = {1},
                        !.seqs = {0},
                        !.items = Every({WpA}),
                        !.acks = {MAV_MISSION_ACCEPTED}],
     \* one-item lists of every type are uploaded, and cleared over a medium
     \* whose writes can fail
     clear |->
        [EnvBase EXCEPT !.types = StoredTypes,
                        !.clear_types = StoredTypes \cup {MAV_MISSION_TYPE_ALL},
                        !.counts = {0, 1},
                        !.seqs = {0},
                        !.items = Every({WpA, Vertex3, RallyA}),
                        !.clear_oks = BOOLEAN],
     \* a one-item mission is uploaded and downloaded in both message variants
     \* on a link that also carries messages addressed to others
     stray |->
        [EnvBase EXCEPT !.targets = {ToUs, ToOtherSystem, ToOtherComponent},
                        !.counts = {1},
                        !.seqs = {0},
                        !.items = Every({WpA}),
                        !.int_items = Every({WpIntA})],
     \* missions of up to MaxItems items are uploaded while the navigator
     \* reports its progress
     progress |->
        [EnvBase EXCEPT !.counts = 0..MaxItems,
                        !.items = Every({WpA}),
                        !.results = {NoResult} \cup {ResultAt(k) : k \in 0..MaxItems},
                        !.rates = BOOLEAN],
     \* two channels, one station on each; one-item missions are uploaded and
     \* cleared on both, and each channel watches for the other's changes
     sync |->
        [EnvBase EXCEPT
           !.senders = [e \in Channels |-> IF e = "ch0" THEN {Gcs1} ELSE {Gcs2}],
           !.counts = {1},
           !.seqs = {0},
           !.items = Every({WpA}),
           !.watch = TRUE],
     \* two stations on one channel upload and download one-item missions and
     \* fences
     rivals |->
        [EnvBase EXCEPT
           !.senders = [e \in Channels |-> IF e = "ch0" THEN {Gcs1, Gcs2} ELSE {}],
           !.types = {MAV_MISSION_TYPE_MISSION, MAV_MISSION_TYPE_FENCE},
           !.counts = {1},
           !.items = Every({WpA, Vertex3})],
     \* the station on ch0 uploads a mission of MaxItems items and downloads it
     \* over a medium whose reads and writes can fail, while the station on ch1
     \* clears it
     download |->
        [EnvBase EXCEPT
           !.senders = [e \in Channels |-> IF e = "ch0" THEN {Gcs1} ELSE {Gcs2}],
           !.counts = {MaxItems},
           !.seqs = 0..MaxItems,
           !.items = Every({WpA}),
           !.wr_oks = BOOLEAN,
           !.rd_oks = BOOLEAN],
     \* mission uploads that mix in fence and rally items
     intermix |->
        [EnvBase EXCEPT
           !.counts = {MaxItems},
           !.items = Every({WpA} \cup {FenceOrRally(c) : c \in FenceAndRallyCmds})],
     \* fence and rally lists are uploaded and downloaded; item seq of a list
     \* lies at place seq + 1, or is a vertex of a polygon with two corners
     slots |->
        [EnvBase EXCEPT
           !.types = {MAV_MISSION_TYPE_FENCE, MAV_MISSION_TYPE_RALLY},
           !.counts = {MaxItems},
           !.items = [g \in Stations |->
                        [k \in 0..MaxItems |-> {VertexAt(k + 1), RallyAt(k + 1), Vertex2}]]],
     \* one-item missions and fences are uploaded and rally points cleared while
     \* the navigator reports changed DO_JUMP counters
     jump |->
        [EnvBase EXCEPT
           !.types = {MAV_MISSION_TYPE_MISSION, MAV_MISSION_TYPE_FENCE},
           !.clear_types = {MAV_MISSION_TYPE_RALLY},
           !.counts = {1},
           !.seqs = {0},
           !.items = Every({WpA, Vertex3}),
           !.results = {NoResult, JumpChangedAt(0)}],
     \* one-item missions of every command the parser accepts are uploaded and
     \* downloaded in both message variants
     codec |->
        [EnvBase EXCEPT
           !.counts = {1},
           !.seqs = {0},
           !.items = Every(AcceptedItems),
           !.int_items = Every(AcceptedIntItems)],
     \* one-item missions are uploaded and downloaded over a medium whose reads
     \* and writes can fail, and the status texts about it are tallied
     faults |->
        [EnvBase EXCEPT
           !.counts = {1},
           !.seqs = {0},
           !.items = Every({WpA}),
           !.wr_oks = BOOLEAN,
           !.rd_oks = BOOLEAN,
           !.tally = TRUE],
     \* one-item missions and fences are uploaded, downloaded and cleared on one
     \* channel over a medium whose writes and locks can fail
     lock |->
        [EnvBase EXCEPT
           !.types = {MAV_MISSION_TYPE_MISSION, MAV_MISSION_TYPE_FENCE},
           !.clear_types = {MAV_MISSION_TYPE_MISSION, MAV_MISSION_TYPE_FENCE},
           !.counts = {1},
           !.seqs = {0},
           !.items = Every({WpA, Vertex3, Vertex2}),
           !.wr_oks = BOOLEAN],
     \* two stations on ch0 and one on ch1 announce missions of every size,
     \* upload one-item missions and clear the mission
     answers |->
        [EnvBase EXCEPT
           !.senders = [e \in Channels |-> IF e = "ch0" THEN {Gcs1, Gcs2} ELSE {Gcs1}],
           !.clear_types = {MAV_MISSION_TYPE_MISSION},
           !.counts = {0, 1, MAX_COUNT[MAV_MISSION_TYPE_MISSION] + 1},
           !.seqs = {0},
           !.items = Every({WpA}),
           !.clear_oks = BOOLEAN],
     \* missions and fences are uploaded with one item, emptied by a count of
     \* zero and cleared over a medium whose writes can fail
     commits |->
        [EnvBase EXCEPT !.types = {MAV_MISSION_TYPE_MISSION, MAV_MISSION_TYPE_FENCE},
                        !.clear_types = {MAV_MISSION_TYPE_MISSION, MAV_MISSION_TYPE_ALL},
                        !.counts = {0, 1},
                        !.seqs = {0},
                        !.items = Every({WpA, Vertex3}),
                        !.wr_oks = BOOLEAN,
                        !.clear_oks = BOOLEAN],
     \* one-item fences and rally lists are uploaded and downloaded in both
     \* message variants, with absolute and with relative altitudes
     frames |->
        [EnvBase EXCEPT
           !.types = {MAV_MISSION_TYPE_FENCE, MAV_MISSION_TYPE_RALLY},
           !.counts = {1},
           !.seqs = {0},
           !.items = Every({Full(c, f) : c \in {"NAV_FENCE_CIRCLE_INCLUSION", "NAV_RALLY_POINT"},
                                         f \in {MAV_FRAME_GLOBAL, MAV_FRAME_GLOBAL_RELATIVE_ALT}}),
           !.int_items = Every({FullInt("NAV_RALLY_POINT", f) :
                                  f \in {MAV_FRAME_GLOBAL_INT, MAV_FRAME_GLOBAL_RELATIVE_ALT_INT}})],
     \* the station on ch0 uploads and downloads one-item missions while the
     \* station on ch1 uploads and clears; the downloads are traced
     lending |->
        [EnvBase EXCEPT
           !.senders = [e \in Channels |-> IF e = "ch0" THEN {Gcs1} ELSE {Gcs2}],
           !.counts = {1},
           !.seqs = {0},
           !.items = Every({WpA}),
           !.lend = TRUE],
     \* uploads of every type, in both message variants, with items the parser
     \* refuses
     malformed |->
        [EnvBase EXCEPT
           !.types = StoredTypes,
           !.counts = {1},
           !.items = Every({WpA, BadCommand, BadMissionCommand, BadFrame, WpIntA}),
           !.int_items = Every({WpIntA, BadCommand, BadFrame})]]

Env == Scenarios[scn]

Envelope(snd, tgt) ==
    [sysid |-> snd.sysid, compid |-> snd.compid,
     target_system |-> tgt.target_system, target_component |-> tgt.target_component]

\* r extended with the fields of q
Ext(r, q) ==
    [f \in DOMAIN r \cup DOMAIN q |-> IF f \in DOMAIN q THEN q[f] ELSE r[f]]

\* the messages the environment can deliver to channel e
AckMsgs(e) ==
    {Ext(Envelope(snd, tgt), [type |-> a, mission_type |-> ty]) :
        snd \in Env.senders[e], tgt \in Env.targets, ty \in Env.types, a \in Env.acks}

SetCurrentMsgs(e) ==
    {Ext(Envelope(snd, tgt), [seq |-> seq]) :
        snd \in Env.senders[e], tgt \in Env.targets, seq \in Env.seqs}

RequestListMsgs(e) ==
    {Ext(Envelope(snd, tgt), [mission_type |-> ty]) :
        snd \in Env.senders[e], tgt \in Env.targets, ty \in Env.types}

RequestMsgs(e) ==
    {Ext(Envelope(snd, tgt), [seq |-> seq, mission_type |-> ty]) :
        snd \in Env.senders[e], tgt \in Env.targets, ty \in Env.types, seq \in Env.seqs}

CountMsgs(e) ==
    {Ext(Envelope(snd, tgt), [count |-> n, mission_type |-> ty]) :
        snd \in Env.senders[e], tgt \in Env.targets, ty \in Env.types, n \in Env.counts}

ItemMsgsOf(e, items) ==
    UNION {{Ext(Ext(Envelope(snd, tgt), p), [seq |-> seq, mission_type |-> ty]) :
                tgt \in Env.targets, ty \in Env.types, p \in items[snd][seq]} :
           snd \in Env.senders[e], seq \in Env.seqs}

ItemMsgs(e) == ItemMsgsOf(e, Env.items)

ItemIntMsgs(e) == ItemMsgsOf(e, Env.int_items)

ClearAllMsgs(e) ==
    {Ext(Envelope(snd, tgt), [mission_type |-> ty]) :
        snd \in Env.senders[e], tgt \in Env.targets, ty \in Env.clear_types}

\* a dataman call succeeds when the medium is there and the call does not fail
Ok(ok) == ok /\ ~dm_fault

Medium(io) == [k \in DOMAIN io |-> Ok(io[k])]

\* the outcomes of the dataman calls each handler makes
ReadIos == {Ok(ok) : ok \in Env.rd_oks}

WriteIos == {Ok(ok) : ok \in Env.wr_oks}

CountIos == {Medium(io) : io \in [hdr : Env.wr_oks, lock : Env.wr_oks]}

ItemIos == {Medium(io) : io \in [wr : Env.wr_oks, hdr : Env.wr_oks]}

ClearAllIos ==
    {Medium(io) : io \in [hdr : Env.clear_oks, hdr2 : Env.clear_oks, hdr3 : Env.clear_oks]}

SendIos ==
    {Ext(Medium(io), [rate |-> rate]) :
        io \in [rd : Env.rd_oks, rd2 : Env.rd_oks], rate \in Env.rates}

---------------------------------------------------------------------------
(* Actions *)

\* the machine state a method of channel e starts from
Start(e) == [me |-> mgr[e], st |-> st, dm |-> dm, out |-> <<>>, ret |-> 0, chan |-> e]

\* the fence update counter is followed from two increments before it wraps
\* to MaxFenceWrites - 1 increments after
CounterExplored(c) == (c + 2) % UINT16 <= MaxFenceWrites + 1

\* nothing heard yet
HeardNothing == [variant |-> "none", toggled |-> FALSE]

\* a request or item of the given variant was handled
HeardVariant(variant) == [variant |-> variant, toggled |-> FALSE]

\* ack wpa reaches channel e in GETLIST from its transfer partner and does not accept
Nacked(e, wpa) ==
    /\ mgr[e]._state = MAVLINK_WPM_STATE_GETLIST
    /\ CHECK_SYSID_COMPID_MISSION(wpa)
    /\ wpa.sysid = mgr[e]._transfer_partner_sysid
    /\ wpa.compid = mgr[e]._transfer_partner_compid
    /\ wpa.type # MAV_MISSION_ACCEPTED

\* what channel e has heard once it handled ack wpa
HeardAck(e, wpa) ==
    IF Nacked(e, wpa) /\ heard[e].variant # "none"
    THEN [heard[e] EXCEPT !.toggled = ~@]
    ELSE heard[e]

\* channel e has now heard h, in the scenarios that follow it
Hears(e, h) ==
    heard' = IF Env.follow THEN [heard EXCEPT ![e] = h] ELSE heard

\* the method that ended in machine state s changed the active mission
Publishes(s) == \E i \in DOMAIN s.out : s.out[i].msg = "OFFBOARD_MISSION"

\* channel e changed the active mission, in the scenarios that watch it
Changes(e, s) ==
    stale' = IF Env.watch /\ Publishes(s)
             THEN [c \in Channels |-> c # e]
             ELSE stale

\* the status texts that report a failed dataman read or write
StorageTexts ==
    {"Mission storage: Unable to write to microSD",
     "Mission storage: Unable to read from microSD",
     "Unable to write on micro SD"}

\* how many of them the method that ended in machine state s emitted
StorageTextsIn(s) ==
    Cardinality({i \in DOMAIN s.out :
                    s.out[i].msg = "STATUSTEXT" /\ s.out[i].text \in StorageTexts})

\* channel e emitted them, in the scenarios that tally them; the tally stops
\* one above the notify limit
Tells(e, s) ==
    told' = IF Env.tally
            THEN [told EXCEPT ![e] = Min(@ + StorageTextsIn(s),
                                         FILESYSTEM_ERRCOUNT_NOTIFY_LIMIT + 1)]
            ELSE told

\* machine state s is in a download of the mission
DownloadsMission(s) ==
    /\ s.me._state = MAVLINK_WPM_STATE_SENDLIST
    /\ s.me._mission_type = MAV_MISSION_TYPE_MISSION

\* channel e handled a REQUEST_LIST and ended in machine state s: a COUNT sent
\* for a mission download starts the download with the id that is active now,
\* in the scenarios that trace downloads
Lends(e, s) ==
    lent' = IF Env.lend
            THEN [lent EXCEPT ![e] =
                    IF ~DownloadsMission(s) THEN {}
                    ELSE IF \E i \in DOMAIN s.out : s.out[i].msg = "MISSION_COUNT"
                    THEN {s.st._dataman_id}
                    ELSE @]
            ELSE lent

\* channel e handled anything else: the download goes on or ends
Keeps(e, s) ==
    lent' = IF Env.lend
            THEN [lent EXCEPT ![e] = IF DownloadsMission(s) THEN @ ELSE {}]
            ELSE lent

\* channel e ends a method in machine state s
Moves(e, s) ==
    /\ CounterExplored(s.st._geofence_update_counter)
    /\ mgr' = [mgr EXCEPT ![e] = s.me]
    /\ st' = s.st
    /\ dm' = s.dm
    /\ Changes(e, s)
    /\ Tells(e, s)

\* the action ends in machine state s
Step(e, s) ==
    /\ Moves(e, s)
    /\ Keeps(e, s)

HandleMissionAck(e) ==
    /\ \E wpa \in AckMsgs(e) :
         /\ Step(e, handle_mission_ack(Start(e), wpa))
         /\ Hears(e, HeardAck(e, wpa))
    /\ UNCHANGED <<dm_fault, scn>>

HandleMissionSetCurrent(e) ==
    /\ \E wpc \in SetCurrentMsgs(e), ok \in WriteIos :
         Step(e, handle_mission_set_current(Start(e), wpc, ok))
    /\ UNCHANGED <<dm_fault, scn, heard>>

HandleMissionRequestList(e) ==
    /\ \E wprl \in RequestListMsgs(e), ok \in ReadIos :
         LET s == handle_mission_request_list(Start(e), wprl, ok)
         IN  Moves(e, s) /\ Lends(e, s)
    /\ UNCHANGED <<dm_fault, scn, heard>>

HandleMissionRequest(e) ==
    /\ \E wpr \in RequestMsgs(e), ok \in ReadIos :
         Step(e, handle_mission_request(Start(e), wpr, ok))
    /\ Hears(e, HeardVariant("float"))
    /\ UNCHANGED <<dm_fault, scn>>

HandleMissionRequestInt(e) ==
    /\ \E wpr \in RequestMsgs(e), ok \in ReadIos :
         Step(e, handle_mission_request_int(Start(e), wpr, ok))
    /\ Hears(e, HeardVariant("int"))
    /\ UNCHANGED <<dm_fault, scn>>

HandleMissionCount(e) ==
    /\ \E wpc \in CountMsgs(e), io \in CountIos :
         Step(e, handle_mission_count(Start(e), wpc, io))
    /\ UNCHANGED <<dm_fault, scn, heard>>

HandleMissionItem(e) ==
    /\ \E wp \in ItemMsgs(e), io \in ItemIos :
         Step(e, handle_mission_item(Start(e), wp, io))
    /\ Hears(e, HeardVariant("float"))
    /\ UNCHANGED <<dm_fault, scn>>

HandleMissionItemInt(e) ==
    /\ \E wp \in ItemIntMsgs(e), io \in ItemIos :
         Step(e, handle_mission_item_int(Start(e), wp, io))
    /\ Hears(e, HeardVariant("int"))
    /\ UNCHANGED <<dm_fault, scn>>

HandleMissionClearAll(e) ==
    /\ \E wpca \in ClearAllMsgs(e), io \in ClearAllIos :
         Step(e, handle_mission_clear_all(Start(e), wpca, io))
    /\ UNCHANGED <<dm_fault, scn, heard>>

\* the clock of channel e after dt time units
Elapse(me, dt) ==
    [me EXCEPT !._time_last_recv = Later(@, dt, ActionTimeout + 1),
               !._time_last_sent = Later(@, dt, RetryTimeout + 1),
               !._time_last_reached = Later(@, dt, ReachedWindow)]

\* channel e at the moment its main loop calls send(now), dt after the last call
AtSend(e, dt) == [Start(e) EXCEPT !.me = Elapse(@, dt)]

\* the main loop of channel e calls send(now)
Send(e) ==
    /\ \E dt \in Env.dts, r \in Env.results, io \in SendIos :
         Step(e, send(AtSend(e, dt), r, io))
    /\ UNCHANGED <<dm_fault, scn, heard>>

\* the main loop of channel e calls check_active_mission()
CheckActiveMission(e) ==
    /\ LET s == check_active_mission(Start(e))
       IN  /\ mgr' = [mgr EXCEPT ![e] = s.me]
           /\ st' = s.st
           /\ dm' = s.dm
    /\ stale' = IF Env.watch THEN [stale EXCEPT ![e] = FALSE] ELSE stale
    /\ UNCHANGED <<dm_fault, scn, heard, told, lent>>

\* the storage medium is removed
RemoveMedium ==
    /\ ~dm_fault
    /\ dm_fault' = TRUE
    /\ UNCHANGED <<mgr, st, dm, scn, heard, stale, told, lent>>

---------------------------------------------------------------------------
(* Specifications *)

\* the state after the managers of all channels are constructed over dataman d
Booted(d) ==
    LET s == init_offboard_mission([me |-> NewManager, st |-> NewStatics, dm |-> d,
                                    out |-> <<>>, ret |-> 0, chan |-> "boot"])
    IN  /\ dm = d
        /\ st = s.st
        /\ mgr = [e \in Channels |-> [NewManager EXCEPT !._my_dataman_id = s.st._dataman_id]]
        /\ dm_fault = FALSE
        /\ heard = [e \in Channels |-> HeardNothing]
        /\ stale = [e \in Channels |-> FALSE]
        /\ told = [e \in Channels |-> 0]
        /\ lent = [e \in Channels |-> {}]

\* Two channels over a blank dataman.  ch0 also serves downloads and is the
\* channel whose clock is followed; ch1 also clears the mission.
Init ==
    /\ scn = "shared"
    /\ Booted(DmBlank)

Next ==
    \/ \E e \in Channels : HandleMissionCount(e)
    \/ \E e \in Channels : HandleMissionItem(e)
    \/ HandleMissionClearAll("ch1")
    \/ HandleMissionRequestList("ch0")
    \/ Send("ch0")

Spec == Init /\ [][Next]_vars

\* One channel, uploads of one list type per behaviour.
InitUpload ==
    /\ scn \in {"mission", "fence", "rally"}
    /\ Booted(DmBlank)

NextUpload ==
    \/ HandleMissionCount("ch0")
    \/ HandleMissionItem("ch0")
    \/ Send("ch0")

SpecUpload == InitUpload /\ [][NextUpload]_vars

\* One channel that speaks both message variants.
InitMode ==
    /\ scn = "mode"
    /\ Booted(DmBlank)

NextMode ==
    \/ HandleMissionCount("ch0")
    \/ HandleMissionItem("ch0")
    \/ HandleMissionItemInt("ch0")
    \/ HandleMissionRequestList("ch0")
    \/ HandleMissionRequest("ch0")
    \/ HandleMissionRequestInt("ch0")
    \/ HandleMissionAck("ch0")
    \/ Send("ch0")

SpecMode == InitMode /\ [][NextMode]_vars

\* a dataman whose fence stats were written UINT16 - 2 times
DmWorn ==
    [DmBlank EXCEPT ![DM_KEY_FENCE_POINTS][0] =
                        [num_items |-> 0, update_counter |-> UINT16 - 2]]

\* One channel that uploads and clears fences over a dataman in long use.
InitWrap ==
    /\ scn = "wrap"
    /\ Booted(DmWorn)

NextWrap ==
    \/ HandleMissionCount("ch0")
    \/ HandleMissionItem("ch0")
    \/ HandleMissionClearAll("ch0")

SpecWrap == InitWrap /\ [][NextWrap]_vars

\* the main loop of channel e calls send(now) after time has passed
Tick(e) ==
    /\ \E dt \in Env.dts \ {0}, r \in Env.results, io \in SendIos :
         Step(e, send(AtSend(e, dt), r, io))
    /\ UNCHANGED <<dm_fault, scn, heard>>

\* One channel whose storage medium can be removed.  The main loop of a
\* channel runs for ever and calls send(now) in every round, so time passes
\* between calls of send() again and again.
InitLive ==
    /\ scn = "live"
    /\ Booted(DmBlank)

NextLive ==
    \/ HandleMissionCount("ch0")
    \/ HandleMissionItem("ch0")
    \/ HandleMissionRequestList("ch0")
    \/ HandleMissionRequest("ch0")
    \/ Send("ch0")
    \/ RemoveMedium

SpecLive == InitLive /\ [][NextLive]_vars /\ WF_vars(Tick("ch0"))

\* One channel on which lists of every type are cleared.
InitClear ==
    /\ scn = "clear"
    /\ Booted(DmBlank)

NextClear ==
    \/ HandleMissionCount("ch0")
    \/ HandleMissionItem("ch0")
    \/ HandleMissionClearAll("ch0")

SpecClear == InitClear /\ [][NextClear]_vars

\* One channel that hears every mission message, addressed to it or not.
InitStray ==
    /\ scn = "stray"
    /\ Booted(DmBlank)

NextStray ==
    \/ HandleMissionAck("ch0")
    \/ HandleMissionSetCurrent("ch0")
    \/ HandleMissionRequestList("ch0")
    \/ HandleMissionRequest("ch0")
    \/ HandleMissionRequestInt("ch0")
    \/ HandleMissionCount("ch0")
    \/ HandleMissionItem("ch0")
    \/ HandleMissionItemInt("ch0")
    \/ HandleMissionClearAll("ch0")
    \/ Send("ch0")

SpecStray == InitStray /\ [][NextStray]_vars

\* One channel that reports the navigator's progress through uploaded missions.
InitProgress ==
    /\ scn = "progress"
    /\ Booted(DmBlank)

NextProgress ==
    \/ HandleMissionCount("ch0")
    \/ HandleMissionItem("ch0")
    \/ Send("ch0")

SpecProgress == InitProgress /\ [][NextProgress]_vars

\* Two channels whose main loops look for a mission changed by the other one.
InitSync ==
    /\ scn = "sync"
    /\ Booted(DmBlank)

NextSync ==
    \/ \E e \in Channels : HandleMissionCount(e)
    \/ \E e \in Channels : HandleMissionItem(e)
    \/ \E e \in Channels : HandleMissionClearAll(e)
    \/ \E e \in Channels : CheckActiveMission(e)

SpecSync == InitSync /\ [][NextSync]_vars

\* One channel with two stations on it.
InitRivals ==
    /\ scn = "rivals"
    /\ Booted(DmBlank)

NextRivals ==
    \/ HandleMissionCount("ch0")
    \/ HandleMissionItem("ch0")
    \/ HandleMissionRequestList("ch0")
    \/ HandleMissionRequest("ch0")
    \/ HandleMissionAck("ch0")
    \/ Send("ch0")

SpecRivals == InitRivals /\ [][NextRivals]_vars

\* One channel that serves downloads while the other one clears the mission.
InitDownload ==
    /\ scn = "download"
    /\ Booted(DmBlank)

NextDownload ==
    \/ HandleMissionCount("ch0")
    \/ HandleMissionItem("ch0")
    \/ HandleMissionRequestList("ch0")
    \/ HandleMissionRequest("ch0")
    \/ HandleMissionRequestInt("ch0")
    \/ HandleMissionClearAll("ch1")

SpecDownload == InitDownload /\ [][NextDownload]_vars

\* One channel whose station mixes fence and rally items into its missions.
InitIntermix ==
    /\ scn = "intermix"
    /\ Booted(DmBlank)

NextIntermix ==
    \/ HandleMissionCount("ch0")
    \/ HandleMissionItem("ch0")
    \/ Send("ch0")

SpecIntermix == InitIntermix /\ [][NextIntermix]_vars

\* One channel whose station uploads and downloads fence and rally lists.
InitSlots ==
    /\ scn = "slots"
    /\ Booted(DmBlank)

NextSlots ==
    \/ HandleMissionCount("ch0")
    \/ HandleMissionItem("ch0")
    \/ HandleMissionRequestList("ch0")
    \/ HandleMissionRequest("ch0")
    \/ HandleMissionRequestInt("ch0")

SpecSlots == InitSlots /\ [][NextSlots]_vars

\* One channel with uploads and clears of several types while DO_JUMP counters
\* change.
InitJump ==
    /\ scn = "jump"
    /\ Booted(DmBlank)

NextJump ==
    \/ HandleMissionCount("ch0")
    \/ HandleMissionItem("ch0")
    \/ HandleMissionClearAll("ch0")
    \/ Send("ch0")

SpecJump == InitJump /\ [][NextJump]_vars

\* One channel whose station uploads and downloads items of every command.
InitCodec ==
    /\ scn = "codec"
    /\ Booted(DmBlank)

NextCodec ==
    \/ HandleMissionCount("ch0")
    \/ HandleMissionItem("ch0")
    \/ HandleMissionItemInt("ch0")
    \/ HandleMissionRequestList("ch0")
    \/ HandleMissionRequest("ch0")
    \/ HandleMissionRequestInt("ch0")

SpecCodec == InitCodec /\ [][NextCodec]_vars

\* One channel over a medium that fails now and then.
InitFaults ==
    /\ scn = "faults"
    /\ Booted(DmBlank)

NextFaults ==
    \/ HandleMissionCount("ch0")
    \/ HandleMissionItem("ch0")
    \/ HandleMissionRequestList("ch0")
    \/ HandleMissionRequest("ch0")

SpecFaults == InitFaults /\ [][NextFaults]_vars

\* One channel with uploads, downloads and clears of missions and fences.
InitLock ==
    /\ scn = "lock"
    /\ Booted(DmBlank)

NextLock ==
    \/ HandleMissionCount("ch0")
    \/ HandleMissionItem("ch0")
    \/ HandleMissionRequestList("ch0")
    \/ HandleMissionClearAll("ch0")
    \/ Send("ch0")

SpecLock == InitLock /\ [][NextLock]_vars

\* A channel with two stations that upload and clear, and a channel that uploads.
InitAnswers ==
    /\ scn = "answers"
    /\ Booted(DmBlank)

NextAnswers ==
    \/ HandleMissionCount("ch0")
    \/ HandleMissionItem("ch0")
    \/ HandleMissionClearAll("ch0")
    \/ HandleMissionCount("ch1")
    \/ HandleMissionItem("ch1")

SpecAnswers == InitAnswers /\ [][NextAnswers]_vars

\* One channel that uploads, empties and clears lists over a failing medium.
InitCommits ==
    /\ scn = "commits"
    /\ Booted(DmBlank)

NextCommits ==
    \/ HandleMissionCount("ch0")
    \/ HandleMissionItem("ch0")
    \/ HandleMissionClearAll("ch0")

SpecCommits == InitCommits /\ [][NextCommits]_vars

\* One channel that uploads and downloads fences and rally lists.
InitFrames ==
    /\ scn = "frames"
    /\ Booted(DmBlank)

NextFrames ==
    \/ HandleMissionCount("ch0")
    \/ HandleMissionItem("ch0")
    \/ HandleMissionItemInt("ch0")
    \/ HandleMissionRequestList("ch0")
    \/ HandleMissionRequest("ch0")
    \/ HandleMissionRequestInt("ch0")

SpecFrames == InitFrames /\ [][NextFrames]_vars

\* A channel that uploads and downloads and a channel that uploads and clears.
InitLending ==
    /\ scn = "lending"
    /\ Booted(DmBlank)

NextLending ==
    \/ HandleMissionCount("ch0")
    \/ HandleMissionItem("ch0")
    \/ HandleMissionRequestList("ch0")
    \/ HandleMissionRequest("ch0")
    \/ HandleMissionCount("ch1")
    \/ HandleMissionItem("ch1")
    \/ HandleMissionClearAll("ch1")

SpecLending == InitLending /\ [][NextLending]_vars

\* One channel whose station sends items the parser refuses.
InitMalformed ==
    /\ scn = "malformed"
    /\ Booted(DmBlank)

NextMalformed ==
    \/ HandleMissionCount("ch0")
    \/ HandleMissionItem("ch0")
    \/ HandleMissionItemInt("ch0")
    \/ Send("ch0")

SpecMalformed == InitMalformed /\ [][NextMalformed]_vars

---------------------------------------------------------------------------
(* What the claims speak about *)

\* machine state s holds an emitted message of kind msg that satisfies P
Emits(s, msg, P(_)) ==
    \E i \in DOMAIN s.out : s.out[i].msg = msg /\ P(s.out[i])

EmitsAck(s, type) ==
    LET P(m) == m.type = type IN Emits(s, "MISSION_ACK", P)

EmitsText(s, text) ==
    LET P(m) == m.text = text IN Emits(s, "STATUSTEXT", P)

InGetlist(e) == mgr[e]._state = MAVLINK_WPM_STATE_GETLIST

InSendlist(e) == mgr[e]._state = MAVLINK_WPM_STATE_SENDLIST

InIdle(e) == mgr[e]._state = MAVLINK_WPM_STATE_IDLE

\* what is persisted for item seq of the list of type T, in machine state s
Persisted(s, T, seq) ==
    CASE T = MAV_MISSION_TYPE_MISSION ->
            s.dm[DM_KEY_WAYPOINTS_OFFBOARD(s.st._dataman_id)][seq]
      [] T = MAV_MISSION_TYPE_FENCE -> s.dm[DM_KEY_FENCE_POINTS][seq + 1]
      [] T = MAV_MISSION_TYPE_RALLY -> s.dm[DM_KEY_SAFE_POINTS][seq + 1]

\* what storing payload p as an item of type T persists
PersistedForm(T, p) ==
    LET item == parse_mavlink_mission_item(FALSE, p).item
    IN  CASE T = MAV_MISSION_TYPE_MISSION -> item
          [] T = MAV_MISSION_TYPE_FENCE -> FencePointOf(item)
          [] T = MAV_MISSION_TYPE_RALLY -> SavePointOf(item)

\* the station that is the transfer partner of channel e
Partner(e) ==
    CHOOSE g \in Stations : g.sysid = mgr[e]._transfer_partner_sysid
                            /\ g.compid = mgr[e]._transfer_partner_compid

\* the one payload a station uploads as item seq, where the scenario fixes it
Planned(g, seq) == CHOOSE p \in Env.items[g][seq] : TRUE

---------------------------------------------------------------------------
(* C1 *)

\* C1: whenever an ITEM ends an upload of N items of type T with ACK(ACCEPTED),
\* then count[T] = N, what is persisted for each seq < N is the item the
\* uploading station sent with that seq, and for T = MISSION the active dataman
\* id differs from the one that was active when the COUNT was accepted (which
\* is the other one than _transfer_dataman_id).
C1_AcceptedUploadIsPersisted ==
    \A e \in Channels : \A wp \in ItemMsgs(e), io \in ItemIos :
        LET s == handle_mission_item(Start(e), wp, io)
            N == mgr[e]._transfer_count
            T == mgr[e]._mission_type
        IN  (InGetlist(e) /\ EmitsAck(s, MAV_MISSION_ACCEPTED)) =>
                /\ s.st._count[T] = N
                /\ \A k \in 0..(N - 1) :
                      Persisted(s, T, k) = PersistedForm(T, Planned(Partner(e), k))
                /\ T = MAV_MISSION_TYPE_MISSION =>
                      s.st._dataman_id # 1 - mgr[e]._transfer_dataman_id

---------------------------------------------------------------------------
(* C3 *)

\* C3: in every reachable state at most one endpoint is in GETLIST.
C3_OneUploadAtATime ==
    Cardinality({e \in Channels : InGetlist(e)}) <= 1

---------------------------------------------------------------------------
(* C4 *)

UploadingMission(e) ==
    InGetlist(e) /\ mgr[e]._mission_type = MAV_MISSION_TYPE_MISSION

\* an endpoint's mission upload completes in this step
UploadCompletes ==
    \E e \in Channels :
        /\ UploadingMission(e)
        /\ mgr'[e]._state = MAVLINK_WPM_STATE_IDLE
        /\ st'._dataman_id = mgr[e]._transfer_dataman_id
        /\ st'._count[MAV_MISSION_TYPE_MISSION] = mgr[e]._transfer_count

\* C4: an endpoint in GETLIST for type MISSION writes to the inactive buffer
\* (_transfer_dataman_id = 1 - _dataman_id), and while a mission upload is under
\* way _dataman_id changes only in the step that completes an upload.
C4_UploadOwnsInactiveBuffer ==
    /\ [](\A e \in Channels :
            UploadingMission(e) => mgr[e]._transfer_dataman_id = 1 - st._dataman_id)
    /\ [][((\E e \in Channels : UploadingMission(e))
            /\ st'._dataman_id # st._dataman_id) => UploadCompletes]_vars

---------------------------------------------------------------------------
(* C2 *)

\* the list of type T a reader sees in machine state s: the count and the
\* persisted items at the active slots
ListSeen(s, T) ==
    [count |-> s.st._count[T],
     items |-> [k \in 0..(s.st._count[T] - 1) |-> Persisted(s, T, k)]]

\* the persisted header of the list of type T
Header(s, T) ==
    CASE T = MAV_MISSION_TYPE_MISSION -> s.dm[DM_KEY_MISSION_STATE][0]
      [] T = MAV_MISSION_TYPE_FENCE -> s.dm[DM_KEY_FENCE_POINTS][0]
      [] T = MAV_MISSION_TYPE_RALLY -> s.dm[DM_KEY_SAFE_POINTS][0]

\* what a step of send() has in the place of an item
NoItem == [command |-> "none", param1 |-> 0]

\* the steps channel e can take while it receives an upload, each with the
\* machine state s it ends in: the ITEM wp is handled, or send() runs
UploadSteps(e) ==
    {[s |-> handle_mission_item(Start(e), wp, io), wp |-> wp] :
        wp \in ItemMsgs(e), io \in ItemIos}
    \cup {[s |-> send(AtSend(e, dt), r, io), wp |-> NoItem] :
        dt \in Env.dts, r \in Env.results, io \in SendIos}

\* the step to machine state s makes the upload of channel e fail
UploadFails(e, s) ==
    /\ InGetlist(e)
    /\ s.me._state = MAVLINK_WPM_STATE_IDLE
    /\ ~EmitsAck(s, MAV_MISSION_ACCEPTED)

\* the item wp handled in the fence upload of channel e is a vertex of a
\* polygon with fewer than three vertices
VertexCheckFails(e, wp) ==
    /\ mgr[e]._mission_type = MAV_MISSION_TYPE_FENCE
    /\ wp.command \in FenceVertexCmds
    /\ RoundUint16(wp.param1) < 3

---------------------------------------------------------------------------
(* C5 *)

\* C5: count[MISSION] > 0 implies 0 <= _current_seq <= count[MISSION] - 1.
C5_CurrentSeqInRange ==
    st._count[MAV_MISSION_TYPE_MISSION] > 0 =>
        /\ 0 <= st._current_seq
        /\ st._current_seq <= st._count[MAV_MISSION_TYPE_MISSION] - 1

---------------------------------------------------------------------------
(* C6 *)

\* C6: an endpoint whose state is IDLE does not hold the fence lock.
C6_IdleHoldsNoFenceLock ==
    \A e \in Channels : InIdle(e) => ~mgr[e]._geofence_locked

\* an endpoint that holds the fence lock in a fence upload has a failing step
\* and a completing step, each ending in IDLE without the lock
C6_Witness ==
    /\ InGetlist("ch0")
    /\ mgr["ch0"]._geofence_locked
    /\ \E t \in UploadSteps("ch0") :
          UploadFails("ch0", t.s) /\ ~t.s.me._geofence_locked
    /\ \E t \in UploadSteps("ch0") :
          /\ EmitsAck(t.s, MAV_MISSION_ACCEPTED)
          /\ t.s.me._state = MAVLINK_WPM_STATE_IDLE
          /\ ~t.s.me._geofence_locked

---------------------------------------------------------------------------
(* C8 *)

\* machine state s holds a request for item seq, in either variant
EmitsRequest(s, seq) ==
    LET P(m) == m.seq = seq
    IN  Emits(s, "MISSION_REQUEST", P) \/ Emits(s, "MISSION_REQUEST_INT", P)

\* C8: a COUNT of type T handled in IDLE with transfer_in_progress false is,
\* when count > MAX_COUNT[T], answered with ACK(NO_SPACE) and leaves the
\* endpoint IDLE, transfer_in_progress false, and count[], the active dataman
\* id and dataman unchanged; when 0 < count <= MAX_COUNT[T] the endpoint enters
\* GETLIST and emits the request for item 0.
C8_CountAgainstCapacity ==
    \A e \in Channels : \A wpc \in CountMsgs(e), io \in CountIos :
        LET s == handle_mission_count(Start(e), wpc, io)
            T == wpc.mission_type
        IN  (InIdle(e) /\ ~st._transfer_in_progress) =>
                /\ wpc.count > MAX_COUNT[T] =>
                      /\ EmitsAck(s, MAV_MISSION_NO_SPACE)
                      /\ s.me._state = MAVLINK_WPM_STATE_IDLE
                      /\ ~s.st._transfer_in_progress
                      /\ s.st._count = st._count
                      /\ s.st._dataman_id = st._dataman_id
                      /\ s.dm = dm
                /\ (0 < wpc.count /\ wpc.count <= MAX_COUNT[T]) =>
                      /\ s.me._state = MAVLINK_WPM_STATE_GETLIST
                      /\ EmitsRequest(s, 0)

\* an idle endpoint with a stored list refuses a COUNT above the capacity and
\* accepts one at the capacity
C8_Witness ==
    /\ InIdle("ch0")
    /\ ~st._transfer_in_progress
    /\ \E T \in StoredTypes : st._count[T] > 0
    /\ \E wpc \in CountMsgs("ch0"), io \in CountIos :
          /\ wpc.count = MAX_COUNT[wpc.mission_type] + 1
          /\ EmitsAck(handle_mission_count(Start("ch0"), wpc, io), MAV_MISSION_NO_SPACE)
    /\ \E wpc \in CountMsgs("ch0"), io \in CountIos :
          /\ wpc.count = MAX_COUNT[wpc.mission_type]
          /\ EmitsRequest(handle_mission_count(Start("ch0"), wpc, io), 0)

---------------------------------------------------------------------------
(* C7 *)

\* channel e is in a transfer and has handled no message for longer than the
\* action timeout
Silent(e) == ~InIdle(e) /\ Expired(mgr[e]._time_last_recv, ActionTimeout)

\* channel e handled a message within the action timeout
HeardLately(e) ==
    mgr[e]._time_last_recv # NoTime /\ ~Expired(mgr[e]._time_last_recv, ActionTimeout)

\* C7: an endpoint that is in SENDLIST or GETLIST and has handled no inbound
\* message for longer than the action timeout reaches, while send() keeps being
\* called and no message is handled, IDLE with the fence lock released and
\* transfer_in_progress false.  (Where a behaviour ends in stuttering, send()
\* is still called: its calls leave the state as it is.)
C7_SilentTransferEnds ==
    \A e \in Channels :
        Silent(e) ~> \/ /\ InIdle(e)
                        /\ ~mgr[e]._geofence_locked
                        /\ ~st._transfer_in_progress
                     \/ HeardLately(e)

---------------------------------------------------------------------------
(* C9 *)

IntFrames == {MAV_FRAME_GLOBAL_INT, MAV_FRAME_GLOBAL_RELATIVE_ALT_INT}

FloatFrames == {MAV_FRAME_GLOBAL, MAV_FRAME_GLOBAL_RELATIVE_ALT}

IsRequest(m) == m.msg \in {"MISSION_REQUEST", "MISSION_REQUEST_INT"}

IsItem(m) == m.msg \in {"MISSION_ITEM", "MISSION_ITEM_INT"}

\* message m is a request or item of the int variant (int = TRUE) or of the
\* float variant (int = FALSE); a geographic item carries a frame of its variant
OfVariant(m, int) ==
    /\ (m.msg \in {"MISSION_REQUEST_INT", "MISSION_ITEM_INT"}) = int
    /\ (IsItem(m) /\ m.frame \in IntFrames \cup FloatFrames) => ((m.frame \in IntFrames) = int)

\* every request and item machine state s holds is of the given variant
SpeaksVariant(s, int) ==
    \A i \in DOMAIN s.out :
        (IsRequest(s.out[i]) \/ IsItem(s.out[i])) => OfVariant(s.out[i], int)

\* the steps channel e can take, each with what the channel has heard by the
\* time the step emits
ModeSteps(e) ==
    {[s |-> handle_mission_item(Start(e), wp, io), heard |-> HeardVariant("float")] :
        wp \in ItemMsgs(e), io \in ItemIos}
    \cup {[s |-> handle_mission_item_int(Start(e), wp, io), heard |-> HeardVariant("int")] :
        wp \in ItemIntMsgs(e), io \in ItemIos}
    \cup {[s |-> handle_mission_request(Start(e), wpr, ok), heard |-> HeardVariant("float")] :
        wpr \in RequestMsgs(e), ok \in ReadIos}
    \cup {[s |-> handle_mission_request_int(Start(e), wpr, ok), heard |-> HeardVariant("int")] :
        wpr \in RequestMsgs(e), ok \in ReadIos}
    \cup {[s |-> handle_mission_ack(Start(e), wpa), heard |-> HeardAck(e, wpa)] :
        wpa \in AckMsgs(e)}
    \cup {[s |-> handle_mission_request_list(Start(e), wprl, ok), heard |-> heard[e]] :
        wprl \in RequestListMsgs(e), ok \in ReadIos}
    \cup {[s |-> handle_mission_count(Start(e), wpc, io), heard |-> heard[e]] :
        wpc \in CountMsgs(e), io \in CountIos}
    \cup {[s |-> send(AtSend(e, dt), r, io), heard |-> heard[e]] :
        dt \in Env.dts, r \in Env.results, io \in SendIos}

---------------------------------------------------------------------------
(* C10 *)

\* the fence stats header in dataman d
FenceStats(d) == d[DM_KEY_FENCE_POINTS][0]

\* C10: every successful write of the fence stats header writes an
\* update_counter strictly greater than the one written before it.
C10_FenceCounterIncreases ==
    [][(FenceStats(dm) # DmEmpty /\ FenceStats(dm') # FenceStats(dm)) =>
           FenceStats(dm').update_counter > FenceStats(dm).update_counter]_vars

---------------------------------------------------------------------------
(* C11 *)

\* machine state s holds an ack
EmitsAnyAck(s) == \E i \in DOMAIN s.out : s.out[i].msg = "MISSION_ACK"

\* the writes a CLEAR_ALL of type T makes all succeed
ClearWritesOk(T, io) ==
    /\ T \in {MAV_MISSION_TYPE_MISSION, MAV_MISSION_TYPE_ALL} => io.hdr
    /\ T \in {MAV_MISSION_TYPE_FENCE, MAV_MISSION_TYPE_ALL} => io.hdr2
    /\ T \in {MAV_MISSION_TYPE_RALLY, MAV_MISSION_TYPE_ALL} => io.hdr3

\* C11: a CLEAR_ALL handled while the endpoint is not IDLE changes no count, no
\* dataman id and no persisted header and emits no ack; handled in IDLE with
\* successful writes it toggles the active dataman id and sets count[MISSION]
\* and current_seq to 0 for MISSION and ALL, sets count[FENCE] / count[RALLY]
\* to 0 for FENCE / RALLY and ALL, and emits ACK(ACCEPTED).
C11_ClearAll ==
    \A e \in Channels : \A wpca \in ClearAllMsgs(e), io \in ClearAllIos :
        LET s == handle_mission_clear_all(Start(e), wpca, io)
            T == wpca.mission_type
        IN  /\ ~InIdle(e) =>
                  /\ s.st._count = st._count
                  /\ s.st._dataman_id = st._dataman_id
                  /\ \A U \in StoredTypes : Header(s, U) = Header(Start(e), U)
                  /\ ~EmitsAnyAck(s)
            /\ (InIdle(e) /\ ClearWritesOk(T, io)) =>
                  /\ T \in {MAV_MISSION_TYPE_MISSION, MAV_MISSION_TYPE_ALL} =>
                        /\ s.st._dataman_id = 1 - st._dataman_id
                        /\ s.st._count[MAV_MISSION_TYPE_MISSION] = 0
                        /\ s.st._current_seq = 0
                        /\ Header(s, MAV_MISSION_TYPE_MISSION) =
                              [dataman_id |-> 1 - st._dataman_id, count |-> 0, current_seq |-> 0]
                  /\ T \in {MAV_MISSION_TYPE_FENCE, MAV_MISSION_TYPE_ALL} =>
                        /\ s.st._count[MAV_MISSION_TYPE_FENCE] = 0
                        /\ Header(s, MAV_MISSION_TYPE_FENCE).num_items = 0
                  /\ T \in {MAV_MISSION_TYPE_RALLY, MAV_MISSION_TYPE_ALL} =>
                        /\ s.st._count[MAV_MISSION_TYPE_RALLY] = 0
                        /\ Header(s, MAV_MISSION_TYPE_RALLY).num_items = 0
                  /\ EmitsAck(s, MAV_MISSION_ACCEPTED)

\* with a list of every type stored, an idle endpoint clears them all
C11_Witness ==
    /\ InIdle("ch0")
    /\ \A U \in StoredTypes : st._count[U] > 0
    /\ \E wpca \in ClearAllMsgs("ch0"), io \in ClearAllIos :
          LET s == handle_mission_clear_all(Start("ch0"), wpca, io)
          IN  /\ wpca.mission_type = MAV_MISSION_TYPE_ALL
              /\ EmitsAck(s, MAV_MISSION_ACCEPTED)
              /\ \A U \in StoredTypes : s.st._count[U] = 0

---------------------------------------------------------------------------
(* C12 *)

\* message m is not addressed to this system's mission manager
Stray(m) == ~CHECK_SYSID_COMPID_MISSION(m)

\* the handler that ended in machine state s changed no field of channel e, no
\* process-wide field and nothing stored, and emitted nothing
Untouched(e, s) ==
    /\ s.me = mgr[e]
    /\ s.st = st
    /\ s.dm = dm
    /\ s.out = <<>>

\* C12: an inbound mission message whose target_system is not this system, or
\* whose target_component is none of own compid, 190 and 0, leaves every field
\* of the endpoint (int mode included) and every process-wide field unchanged
\* and causes no outbound message.
C12_StrayMessageChangesNothing ==
    \A e \in Channels :
        /\ \A m \in AckMsgs(e) :
              Stray(m) => Untouched(e, handle_mission_ack(Start(e), m))
        /\ \A m \in SetCurrentMsgs(e), ok \in WriteIos :
              Stray(m) => Untouched(e, handle_mission_set_current(Start(e), m, ok))
        /\ \A m \in RequestListMsgs(e), ok \in ReadIos :
              Stray(m) => Untouched(e, handle_mission_request_list(Start(e), m, ok))
        /\ \A m \in RequestMsgs(e), ok \in ReadIos :
              Stray(m) => /\ Untouched(e, handle_mission_request(Start(e), m, ok))
                          /\ Untouched(e, handle_mission_request_int(Start(e), m, ok))
        /\ \A m \in CountMsgs(e), io \in CountIos :
              Stray(m) => Untouched(e, handle_mission_count(Start(e), m, io))
        /\ \A m \in ItemMsgs(e), io \in ItemIos :
              Stray(m) => Untouched(e, handle_mission_item(Start(e), m, io))
        /\ \A m \in ItemIntMsgs(e), io \in ItemIos :
              Stray(m) => Untouched(e, handle_mission_item_int(Start(e), m, io))
        /\ \A m \in ClearAllMsgs(e), io \in ClearAllIos :
              Stray(m) => Untouched(e, handle_mission_clear_all(Start(e), m, io))

---------------------------------------------------------------------------
(* C13 *)

\* send(now) with mission result r and outcomes io calls send_mission_current
Reports(r, io) == r.updated \/ io.rate

\* the sequence number send(now) of channel e passes to send_mission_current
ReportedSeq(r) == AsUint16(IF r.updated THEN r.seq_current ELSE st._current_seq)

EmitsCurrent(s, seq) ==
    LET P(m) == m.seq = seq IN Emits(s, "MISSION_CURRENT", P)

EmitsAnyCurrent(s) ==
    \E i \in DOMAIN s.out : s.out[i].msg = "MISSION_CURRENT"

\* C13: MISSION_CURRENT(seq) is emitted only when seq < count[MISSION]; with
\* count[MISSION] = 0 and seq = 0 nothing is emitted, neither MISSION_CURRENT
\* nor a status text; for any other seq >= count[MISSION] a critical status
\* text is emitted instead of MISSION_CURRENT.
C13_MissionCurrentInRange ==
    LET item_count == st._count[MAV_MISSION_TYPE_MISSION]
    IN  \A e \in Channels : \A dt \in Env.dts, r \in Env.results, io \in SendIos :
            LET s == send(AtSend(e, dt), r, io)
                seq == ReportedSeq(r)
                c == send_mission_current(Start(e), seq)
            IN  /\ \A i \in DOMAIN s.out :
                      s.out[i].msg = "MISSION_CURRENT" =>
                          /\ s.out[i].seq < item_count
                          /\ Reports(r, io) /\ s.out[i].seq = seq
                /\ Reports(r, io) =>
                      /\ seq < item_count =>
                            /\ EmitsCurrent(s, seq)
                            /\ ~EmitsText(s, "ERROR: wp index out of bounds")
                      /\ (seq = 0 /\ item_count = 0) =>
                            /\ c.out = <<>>
                            /\ ~EmitsAnyCurrent(s)
                            /\ ~EmitsText(s, "ERROR: wp index out of bounds")
                      /\ (seq >= item_count /\ ~(seq = 0 /\ item_count = 0)) =>
                            /\ EmitsText(s, "ERROR: wp index out of bounds")
                            /\ ~EmitsAnyCurrent(s)

\* with a mission stored, the navigator reports an item beyond its end and the
\* endpoint answers with the status text
C13_Witness ==
    /\ st._count[MAV_MISSION_TYPE_MISSION] > 0
    /\ \E dt \in Env.dts, r \in Env.results, io \in SendIos :
          LET s == send(AtSend("ch0", dt), r, io)
          IN  /\ r.updated
              /\ r.seq_current >= st._count[MAV_MISSION_TYPE_MISSION]
              /\ EmitsText(s, "ERROR: wp index out of bounds")
              /\ ~EmitsAnyCurrent(s)

---------------------------------------------------------------------------
(* C14 *)

\* channel e is in an upload and wp is the item it waits for
Awaited(e, wp) ==
    /\ InGetlist(e)
    /\ CHECK_SYSID_COMPID_MISSION(wp)
    /\ wp.mission_type = mgr[e]._mission_type
    /\ wp.seq = mgr[e]._transfer_seq

\* what the failed vertex-count check of item wp does in every case: ack with
\* ERROR, release of the fence lock, IDLE, transfer_in_progress cleared, and no
\* write of the item
VertexCheckAborts(e, wp, s) ==
    /\ EmitsAck(s, MAV_MISSION_ERROR)
    /\ ~s.me._geofence_locked
    /\ s.me._state = MAVLINK_WPM_STATE_IDLE
    /\ ~s.st._transfer_in_progress
    /\ s.dm[DM_KEY_FENCE_POINTS][wp.seq + 1] = dm[DM_KEY_FENCE_POINTS][wp.seq + 1]

\* C14 as stated: during a fence upload, a polygon-vertex item whose
\* vertex_count is below 3 makes the endpoint emit ACK(ERROR), set count[FENCE]
\* to 0, release the fence lock, return to IDLE and clear transfer_in_progress,
\* and the item is not written to the fence store.
C14_TooFewVerticesResetsFence ==
    \A e \in Channels : \A wp \in ItemMsgs(e), io \in ItemIos :
        LET s == handle_mission_item(Start(e), wp, io)
        IN  (Awaited(e, wp) /\ VertexCheckFails(e, wp)) =>
                /\ VertexCheckAborts(e, wp, s)
                /\ s.st._count[MAV_MISSION_TYPE_FENCE] = 0

\* C14 amended: the same, except that count[FENCE] is set to 0 when the write
\* of the fence stats succeeds and keeps its value when that write fails.
C14_TooFewVerticesAbortsUpload ==
    \A e \in Channels : \A wp \in ItemMsgs(e), io \in ItemIos :
        LET s == handle_mission_item(Start(e), wp, io)
        IN  (Awaited(e, wp) /\ VertexCheckFails(e, wp)) =>
                /\ VertexCheckAborts(e, wp, s)
                /\ s.st._count[MAV_MISSION_TYPE_FENCE] =
                      IF io.hdr THEN 0 ELSE st._count[MAV_MISSION_TYPE_FENCE]
                /\ io.hdr => Header(s, MAV_MISSION_TYPE_FENCE).num_items = 0

\* an endpoint that holds the fence lock in an upload over a fence of one or
\* more points gets a vertex of a two-cornered polygon and empties the fence
C14_Witness ==
    /\ mgr["ch0"]._geofence_locked
    /\ st._count[MAV_MISSION_TYPE_FENCE] > 0
    /\ \E wp \in ItemMsgs("ch0"), io \in ItemIos :
          LET s == handle_mission_item(Start("ch0"), wp, io)
          IN  /\ Awaited("ch0", wp)
              /\ VertexCheckFails("ch0", wp)
              /\ EmitsAck(s, MAV_MISSION_ERROR)
              /\ s.st._count[MAV_MISSION_TYPE_FENCE] = 0

---------------------------------------------------------------------------
(* C15 *)

\* machine state s holds exactly one MISSION_COUNT, for the mission list, with
\* count n and addressed to the station (sysid, compid)
EmitsOneMissionCount(s, sysid, compid, n) ==
    /\ Cardinality({i \in DOMAIN s.out : s.out[i].msg = "MISSION_COUNT"}) = 1
    /\ \E i \in DOMAIN s.out :
          /\ s.out[i].msg = "MISSION_COUNT"
          /\ s.out[i].mission_type = MAV_MISSION_TYPE_MISSION
          /\ s.out[i].count = n
          /\ s.out[i].target_system = sysid
          /\ s.out[i].target_component = compid

\* C15: whenever another endpoint has changed the active mission (completed a
\* mission upload or a mission clear), the next check_active_mission() call on
\* this endpoint sends one MISSION_COUNT carrying the current count[MISSION] to
\* this endpoint's last transfer partner, whatever uploads and clears the
\* other endpoints interleaved since the call before.
C15_ChangeByOtherIsAnnounced ==
    \A e \in Channels :
        stale[e] =>
            EmitsOneMissionCount(check_active_mission(Start(e)),
                mgr[e]._transfer_partner_sysid, mgr[e]._transfer_partner_compid,
                st._count[MAV_MISSION_TYPE_MISSION])

---------------------------------------------------------------------------
(* C16 *)

\* machine state s holds a MISSION_COUNT of n items of type T for station m
EmitsCount(s, m, T, n) ==
    LET P(c) == /\ c.target_system = m.sysid
                /\ c.target_component = m.compid
                /\ c.mission_type = T
                /\ c.count = n
    IN  Emits(s, "MISSION_COUNT", P)

\* message m comes from the transfer partner of channel e
FromPartnerOf(e, m) ==
    m.sysid = mgr[e]._transfer_partner_sysid /\ m.compid = mgr[e]._transfer_partner_compid

\* machine state s is the start of a download of type T to station m
DownloadStarts(s, m, T) ==
    /\ s.me._state = MAVLINK_WPM_STATE_SENDLIST
    /\ s.me._mission_type = T
    /\ s.me._transfer_seq = 0
    /\ s.me._transfer_partner_sysid = m.sysid
    /\ s.me._transfer_partner_compid = m.compid
    /\ EmitsCount(s, m, T, s.st._count[T])

\* C16: a REQUEST_LIST for type T handled in IDLE moves the endpoint to
\* SENDLIST with _mission_type = T, transfer_seq = 0, the sender as partner and
\* COUNT(count[T]) sent to the sender; in SENDLIST a REQUEST_LIST restarts the
\* download only when it comes from the current transfer partner and names the
\* same type, and one from any other sender leaves the partner and the cursor
\* unchanged.
C16_RequestListStartsDownload ==
    \A e \in Channels : \A wprl \in RequestListMsgs(e), ok \in ReadIos :
        LET s == handle_mission_request_list(Start(e), wprl, ok)
            T == wprl.mission_type
        IN  CHECK_SYSID_COMPID_MISSION(wprl) =>
              /\ InIdle(e) => DownloadStarts(s, wprl, T)
              /\ InSendlist(e) =>
                    /\ DownloadStarts(s, wprl, T) \/ s.me = mgr[e]
                    /\ EmitsCount(s, wprl, T, s.st._count[T]) =>
                          FromPartnerOf(e, wprl) /\ T = mgr[e]._mission_type
                    /\ ~FromPartnerOf(e, wprl) =>
                          /\ s.me._transfer_partner_sysid = mgr[e]._transfer_partner_sysid
                          /\ s.me._transfer_partner_compid = mgr[e]._transfer_partner_compid
                          /\ s.me._transfer_seq = mgr[e]._transfer_seq

---------------------------------------------------------------------------
(* C17 *)

\* the float item wp handled by channel e parses and is stored
ParsedAndStored(e, wp, io) ==
    LET parsed == parse_mavlink_mission_item(FALSE, wp)
        stored == StoreItem(Received(Start(e)), wp, parsed.item, io)
    IN  /\ parsed.ret = PX4_OK
        /\ ~stored.write_failed
        /\ ~stored.check_failed

\* what an item does to the cursor of channel e in GETLIST: the awaited item
\* that parses and is stored moves it to seq + 1; an item with another seq
\* changes neither the cursor, the state, the stores nor transfer_in_progress
\* and causes no outbound message
ItemMovesCursor ==
    \A e \in Channels : \A wp \in ItemMsgs(e), io \in ItemIos :
        LET s == handle_mission_item(Start(e), wp, io)
        IN  InGetlist(e) =>
              /\ (Awaited(e, wp) /\ ParsedAndStored(e, wp, io)) =>
                    s.me._transfer_seq = wp.seq + 1
              /\ wp.seq # mgr[e]._transfer_seq =>
                    /\ s.me._transfer_seq = mgr[e]._transfer_seq
                    /\ s.me._state = mgr[e]._state
                    /\ s.dm = dm
                    /\ s.st._transfer_in_progress = st._transfer_in_progress
                    /\ s.out = <<>>

\* while channel e stays in GETLIST its cursor stays or grows by one
CursorAdvances ==
    \A e \in Channels :
        (InGetlist(e) /\ InGetlist(e)') =>
            mgr[e]._transfer_seq' \in {mgr[e]._transfer_seq, mgr[e]._transfer_seq + 1}

\* C17: in GETLIST, an ITEM whose seq equals transfer_seq, and that parses and
\* is stored, sets transfer_seq to seq + 1; an ITEM with any other seq leaves
\* transfer_seq, the state, the persisted stores and transfer_in_progress
\* unchanged and causes no outbound message; so transfer_seq never decreases
\* during an upload and grows by exactly 1 per accepted item.
C17_CursorFollowsItems == []ItemMovesCursor /\ [][CursorAdvances]_vars

\* an upload that has stored its first item: the second one is awaited and
\* moves the cursor on, the first one sent again does not
C17_Witness ==
    /\ InGetlist("ch0")
    /\ mgr["ch0"]._transfer_seq = 1
    /\ \E wp \in ItemMsgs("ch0"), io \in ItemIos :
          /\ Awaited("ch0", wp)
          /\ ParsedAndStored("ch0", wp, io)
          /\ handle_mission_item(Start("ch0"), wp, io).me._transfer_seq = 2
    /\ \E wp \in ItemMsgs("ch0"), io \in ItemIos :
          /\ wp.seq = 0
          /\ handle_mission_item(Start("ch0"), wp, io).me._transfer_seq = 1

---------------------------------------------------------------------------
(* C18 *)

\* machine state s holds item seq, in either message variant
EmitsItem(s, seq) ==
    \E i \in DOMAIN s.out :
        s.out[i].msg \in {"MISSION_ITEM", "MISSION_ITEM_INT"} /\ s.out[i].seq = seq

EmitsAnyItem(s) ==
    \E i \in DOMAIN s.out : s.out[i].msg \in {"MISSION_ITEM", "MISSION_ITEM_INT"}

\* request wpr reaches channel e in a download, from its partner and for the
\* type being transferred
InDownload(e, wpr) ==
    /\ InSendlist(e)
    /\ CHECK_SYSID_COMPID_MISSION(wpr)
    /\ FromPartnerOf(e, wpr)
    /\ wpr.mission_type = mgr[e]._mission_type

\* the request asks for the next item of the download
AsksNext(e, wpr) ==
    wpr.seq = mgr[e]._transfer_seq /\ mgr[e]._transfer_seq < mgr[e]._transfer_count

\* the request asks for the item sent last
AsksAgain(e, wpr) == ~AsksNext(e, wpr) /\ wpr.seq = mgr[e]._transfer_seq - 1

\* the request is refused: ACK(ERROR), no item, IDLE
Refused(s) ==
    /\ EmitsAck(s, MAV_MISSION_ERROR)
    /\ ~EmitsAnyItem(s)
    /\ s.me._state = MAVLINK_WPM_STATE_IDLE

\* the results of both request handlers of channel e for request wpr
RequestResults(e, wpr, ok) ==
    {handle_mission_request(Start(e), wpr, ok), handle_mission_request_int(Start(e), wpr, ok)}

\* C18 as stated: in SENDLIST, a REQUEST from the partner with matching type
\* and seq = transfer_seq < transfer_count sends item seq and increments
\* transfer_seq; with seq = transfer_seq - 1 it re-sends item seq and leaves
\* transfer_seq unchanged; with any other seq the endpoint emits ACK(ERROR),
\* sends no item and goes to IDLE.
C18_RequestMovesCursor ==
    \A e \in Channels : \A wpr \in RequestMsgs(e), ok \in ReadIos :
        \A s \in RequestResults(e, wpr, ok) :
            InDownload(e, wpr) =>
                IF AsksNext(e, wpr)
                THEN EmitsItem(s, wpr.seq) /\ s.me._transfer_seq = mgr[e]._transfer_seq + 1
                ELSE IF AsksAgain(e, wpr)
                THEN EmitsItem(s, wpr.seq) /\ s.me._transfer_seq = mgr[e]._transfer_seq
                ELSE Refused(s)

\* C18 amended: the cursor moves as stated; the item is sent when seq is still
\* below count[T] and the item can be read; when seq is not below count[T] the
\* request is refused, and when the read fails the endpoint emits ACK(ERROR),
\* sends no item and stays in SENDLIST.
C18_RequestMovesCursorAndSendsReadable ==
    \A e \in Channels : \A wpr \in RequestMsgs(e), ok \in ReadIos :
        \A s \in RequestResults(e, wpr, ok) :
            InDownload(e, wpr) =>
                IF AsksNext(e, wpr) \/ AsksAgain(e, wpr)
                THEN /\ s.me._transfer_seq =
                          mgr[e]._transfer_seq + (IF AsksNext(e, wpr) THEN 1 ELSE 0)
                     /\ IF wpr.seq >= current_item_count(Start(e))
                        THEN Refused(s)
                        ELSE /\ s.me._state = MAVLINK_WPM_STATE_SENDLIST
                             /\ IF ok
                                THEN EmitsItem(s, wpr.seq) /\ ~EmitsAnyAck(s)
                                ELSE EmitsAck(s, MAV_MISSION_ERROR) /\ ~EmitsAnyItem(s)
                ELSE Refused(s)

\* a download that has sent its first item is asked for the second one and
\* for the first one again, and serves both
C18_Witness ==
    /\ InSendlist("ch0")
    /\ mgr["ch0"]._transfer_seq = 1
    /\ \E wpr \in RequestMsgs("ch0"), ok \in ReadIos :
          LET s == handle_mission_request(Start("ch0"), wpr, ok)
          IN  /\ InDownload("ch0", wpr) /\ AsksNext("ch0", wpr)
              /\ EmitsItem(s, 1) /\ s.me._transfer_seq = 2
    /\ \E wpr \in RequestMsgs("ch0"), ok \in ReadIos :
          LET s == handle_mission_request(Start("ch0"), wpr, ok)
          IN  /\ InDownload("ch0", wpr) /\ AsksAgain("ch0", wpr)
              /\ EmitsItem(s, 0) /\ s.me._transfer_seq = 1

---------------------------------------------------------------------------
(* C19 *)

\* message m reaches channel e in a download from a sender other than the
\* partner, or names a type other than the one being transferred
Mismatched(e, m) ==
    /\ InSendlist(e)
    /\ CHECK_SYSID_COMPID_MISSION(m)
    /\ ~FromPartnerOf(e, m) \/ m.mission_type # mgr[e]._mission_type

\* the results of the request handlers and the ack handler of channel e
MismatchResults(e, ok) ==
    UNION {{[s |-> s, m |-> wpr] : s \in RequestResults(e, wpr, ok)} : wpr \in RequestMsgs(e)}
    \cup {[s |-> handle_mission_ack(Start(e), wpa), m |-> wpa] : wpa \in AckMsgs(e)}

---------------------------------------------------------------------------
(* C20 *)

\* the call of send() that ended in machine state s emitted the retry of
\* channel e: in GETLIST the request for transfer_seq; in SENDLIST the count
\* when transfer_seq = 0 and item transfer_seq - 1 otherwise
RetryEmitted(e, s) ==
    \/ InGetlist(e) /\ EmitsRequest(s, mgr[e]._transfer_seq)
    \/ /\ InSendlist(e)
       /\ IF mgr[e]._transfer_seq = 0
          THEN EmitsCount(s, [sysid |-> mgr[e]._transfer_partner_sysid,
                              compid |-> mgr[e]._transfer_partner_compid],
                          mgr[e]._mission_type, mgr[e]._transfer_count)
          ELSE EmitsItem(s, mgr[e]._transfer_seq - 1)

\* the call of send() that ended in machine state s emitted a request, a count
\* or an item
TransferMessageEmitted(s) ==
    \E i \in DOMAIN s.out :
        s.out[i].msg \in {"MISSION_REQUEST", "MISSION_REQUEST_INT", "MISSION_COUNT",
                          "MISSION_ITEM", "MISSION_ITEM_INT"}

\* channel e as a handler finds it after the call of send() that ended in s
After(e, s) == [Start(e) EXCEPT !.me = s.me, !.st = s.st, !.dm = s.dm]

\* C20: a retry emitted by send() (GETLIST: REQUEST(transfer_seq); SENDLIST:
\* COUNT(transfer_count) when transfer_seq = 0, otherwise item
\* transfer_seq - 1) fires only when more than retry_timeout has passed since
\* the last send, and leaves the state, transfer_seq, transfer_count, the
\* partner and _time_last_recv unchanged; so after a lost ITEM(k) the endpoint
\* re-emits REQUEST(k) with the same k, and the ITEM(k) that then arrives is
\* stored and completes the upload when it is the last one.
C20_RetryKeepsTransfer ==
    \A e \in Channels : \A dt \in Env.dts, r \in Env.results, io \in SendIos :
        LET at == AtSend(e, dt)
            s == send(at, r, io)
        IN  /\ (~InIdle(e) /\ ~r.updated /\ TransferMessageEmitted(s)) => RetryEmitted(e, s)
            /\ RetryEmitted(e, s) =>
                  /\ at.me._time_last_sent # NoTime
                  /\ at.me._time_last_sent > RetryTimeout
                  /\ s.me._state = mgr[e]._state
                  /\ s.me._transfer_seq = mgr[e]._transfer_seq
                  /\ s.me._transfer_count = mgr[e]._transfer_count
                  /\ s.me._transfer_partner_sysid = mgr[e]._transfer_partner_sysid
                  /\ s.me._transfer_partner_compid = mgr[e]._transfer_partner_compid
                  /\ s.me._time_last_recv = at.me._time_last_recv
                  /\ InGetlist(e) =>
                        \A wp \in ItemMsgs(e), ios \in ItemIos :
                            LET k == mgr[e]._transfer_seq
                                u == handle_mission_item(After(e, s), wp, ios)
                            IN  (Awaited(e, wp) /\ ParsedAndStored(e, wp, ios)) =>
                                    /\ u.me._transfer_seq = k + 1
                                    /\ IF k + 1 < mgr[e]._transfer_count
                                       THEN EmitsRequest(u, k + 1)
                                       ELSE /\ u.me._state = MAVLINK_WPM_STATE_IDLE
                                            /\ ios.hdr => EmitsAck(u, MAV_MISSION_ACCEPTED)

\* an upload that waits for its last item longer than the retry timeout asks
\* for it again, and the item then completes the upload
C20_Witness ==
    /\ InGetlist("ch0")
    /\ mgr["ch0"]._transfer_seq = 1
    /\ \E dt \in Env.dts, r \in Env.results, io \in SendIos :
          LET s == send(AtSend("ch0", dt), r, io)
          IN  /\ RetryEmitted("ch0", s)
              /\ EmitsRequest(s, 1)
              /\ \E wp \in ItemMsgs("ch0"), ios \in ItemIos :
                    EmitsAck(handle_mission_item(After("ch0", s), wp, ios), MAV_MISSION_ACCEPTED)

---------------------------------------------------------------------------
(* C21 *)

\* ack wpa reaches channel e from its transfer partner
AckOfPartner(e, wpa) == CHECK_SYSID_COMPID_MISSION(wpa) /\ FromPartnerOf(e, wpa)

---------------------------------------------------------------------------
(* C22 *)

\* the write of the awaited item wp of channel e, or the write of the header
\* that completes the upload, fails
WriteFails(e, wp, io) ==
    LET parsed == parse_mavlink_mission_item(FALSE, wp)
        stored == StoreItem(Received(Start(e)), wp, parsed.item, io)
    IN  /\ Awaited(e, wp)
        /\ parsed.ret = PX4_OK
        /\ ~stored.check_failed
        /\ \/ stored.write_failed
           \/ wp.seq + 1 = mgr[e]._transfer_count /\ ~io.hdr

\* the read of the item that request wpr of channel e asks for fails
ReadFails(e, wpr, ok) ==
    /\ InDownload(e, wpr)
    /\ AsksNext(e, wpr) \/ AsksAgain(e, wpr)
    /\ wpr.seq < current_item_count(Start(e))
    /\ ~ok

\* the transfer is failed: ACK(ERROR) and IDLE
TransferFailed(s) ==
    EmitsAck(s, MAV_MISSION_ERROR) /\ s.me._state = MAVLINK_WPM_STATE_IDLE

\* C22: any dataman read or write failure during a transfer fails that
\* transfer: the endpoint emits ACK(ERROR) and goes to IDLE, both for a write
\* failure while storing an item in GETLIST and for a read failure while
\* sending an item in SENDLIST.
C22_StorageFailureFailsTransfer ==
    \A e \in Channels :
        /\ \A wp \in ItemMsgs(e), io \in ItemIos :
              WriteFails(e, wp, io) => TransferFailed(handle_mission_item(Start(e), wp, io))
        /\ \A wpr \in RequestMsgs(e), ok \in ReadIos :
              ReadFails(e, wpr, ok) =>
                  \A s \in RequestResults(e, wpr, ok) : TransferFailed(s)

---------------------------------------------------------------------------
(* C23 *)

\* the slot of the mission buffer that the upload of channel e writes item seq to
TransferSlot(d, e, seq) == d[DM_KEY_WAYPOINTS_OFFBOARD(mgr[e]._transfer_dataman_id)][seq]

\* the item is rejected: not written to the mission buffer, ACK(ERROR), IDLE,
\* transfer_in_progress cleared
Rejected(e, wp, s) ==
    /\ TransferSlot(s.dm, e, wp.seq) = TransferSlot(dm, e, wp.seq)
    /\ EmitsAck(s, MAV_MISSION_ERROR)
    /\ s.me._state = MAVLINK_WPM_STATE_IDLE
    /\ ~s.st._transfer_in_progress

\* channel e is in a mission upload and wp is the item it waits for
AwaitedInMission(e, wp) ==
    Awaited(e, wp) /\ mgr[e]._mission_type = MAV_MISSION_TYPE_MISSION

\* C23 as stated: during a MISSION-type upload, an item whose command is any
\* fence command (FENCE_RETURN_POINT, FENCE_POLYGON_VERTEX_INCLUSION/EXCLUSION,
\* FENCE_CIRCLE_INCLUSION/EXCLUSION) or RALLY_POINT is rejected: it is not
\* written to the mission buffer, ACK(ERROR) is emitted, the endpoint goes to
\* IDLE and transfer_in_progress is cleared.
C23_FenceAndRallyItemsRejected ==
    \A e \in Channels : \A wp \in ItemMsgs(e), io \in ItemIos :
        (AwaitedInMission(e, wp) /\ wp.command \in FenceAndRallyCmds) =>
            Rejected(e, wp, handle_mission_item(Start(e), wp, io))

\* C23 amended: the same for the polygon vertex, circle and rally commands;
\* a FENCE_RETURN_POINT item is written to the mission buffer like a waypoint.
C23_VertexCircleAndRallyItemsRejected ==
    \A e \in Channels : \A wp \in ItemMsgs(e), io \in ItemIos :
        LET s == handle_mission_item(Start(e), wp, io)
        IN  (AwaitedInMission(e, wp) /\ wp.command \in FenceAndRallyCmds) =>
                IF wp.command = "NAV_FENCE_RETURN_POINT"
                THEN io.wr =>
                       /\ TransferSlot(s.dm, e, wp.seq) = PersistedForm(MAV_MISSION_TYPE_MISSION, wp)
                       /\ s.me._transfer_seq = wp.seq + 1
                       /\ ~EmitsAck(s, MAV_MISSION_ERROR)
                ELSE Rejected(e, wp, s)

\* a mission upload that has stored its first item gets a rally point
C23_Witness ==
    /\ InGetlist("ch0")
    /\ mgr["ch0"]._transfer_seq = 1
    /\ \E wp \in ItemMsgs("ch0"), io \in ItemIos :
          /\ AwaitedInMission("ch0", wp)
          /\ wp.command = "NAV_RALLY_POINT"
          /\ Rejected("ch0", wp, handle_mission_item(Start("ch0"), wp, io))

---------------------------------------------------------------------------
(* C24 *)

\* the frame of wp is not supported in a message of the int variant (int) or
\* of the float variant (~int)
FrameUnsupported(int, wp) ==
    /\ wp.frame \notin {MAV_FRAME_GLOBAL, MAV_FRAME_GLOBAL_RELATIVE_ALT, MAV_FRAME_MISSION}
    /\ ~(int /\ wp.frame \in {MAV_FRAME_GLOBAL_INT, MAV_FRAME_GLOBAL_RELATIVE_ALT_INT})

\* the frame of wp is supported and its command is not supported in it
CommandUnsupported(int, wp) ==
    /\ ~FrameUnsupported(int, wp)
    /\ wp.command \notin (IF wp.frame = MAV_FRAME_MISSION
                          THEN ParseMissionFrameCmds \cup {"DO_JUMP"}
                          ELSE PositionFrameCmds)

\* the upload ended with ACK(type) and changed nothing that is published
AbortedWith(s, type) ==
    /\ EmitsAck(s, type)
    /\ s.me._state = MAVLINK_WPM_STATE_IDLE
    /\ ~s.st._transfer_in_progress
    /\ s.st._count = st._count
    /\ s.st._dataman_id = st._dataman_id
    /\ \A T \in StoredTypes : Header(s, T) = Header(Start(s.chan), T)

\* the item of variant int is handled
ItemHandled(int, s, wp, io) ==
    IF int THEN handle_mission_item_int(s, wp, io) ELSE handle_mission_item(s, wp, io)

\* C24: in GETLIST, an item with the expected seq whose command is not
\* supported yields ACK(UNSUPPORTED), and one whose frame is not supported
\* (including a *_INT frame carried by a float ITEM) yields
\* ACK(UNSUPPORTED_FRAME); in both cases the endpoint goes to IDLE,
\* transfer_in_progress becomes false, and count[], the active dataman id and
\* the header are unchanged.
C24_UnsupportedItemAbortsUpload ==
    \A e \in Channels, int \in BOOLEAN :
      \A wp \in (IF int THEN ItemIntMsgs(e) ELSE ItemMsgs(e)), io \in ItemIos :
        LET s == ItemHandled(int, Start(e), wp, io)
        IN  Awaited(e, wp) =>
              /\ CommandUnsupported(int, wp) => AbortedWith(s, MAV_MISSION_UNSUPPORTED)
              /\ FrameUnsupported(int, wp) => AbortedWith(s, MAV_MISSION_UNSUPPORTED_FRAME)

\* an upload in progress gets a float ITEM in an int frame, and can get one
\* with an unknown command
C24_Witness ==
    /\ InGetlist("ch0")
    /\ st._transfer_in_progress
    /\ \E wp \in ItemMsgs("ch0"), io \in ItemIos :
          /\ Awaited("ch0", wp)
          /\ wp.frame = MAV_FRAME_GLOBAL_INT
          /\ FrameUnsupported(FALSE, wp)
          /\ AbortedWith(handle_mission_item(Start("ch0"), wp, io), MAV_MISSION_UNSUPPORTED_FRAME)
    /\ \E wp \in ItemMsgs("ch0"), io \in ItemIos :
          /\ Awaited("ch0", wp)
          /\ CommandUnsupported(FALSE, wp)
          /\ AbortedWith(handle_mission_item(Start("ch0"), wp, io), MAV_MISSION_UNSUPPORTED)

---------------------------------------------------------------------------
(* C25 *)

\* the COUNT with count 0 that asks for what the CLEAR_ALL wpca asks for
CountZeroFor(wpca) == Ext(wpca, [count |-> 0])

\* the dataman outcome of that COUNT when the stats write of the CLEAR_ALL has
\* outcome io
CountIoFor(wpca, io) ==
    [hdr |-> CASE wpca.mission_type = MAV_MISSION_TYPE_MISSION -> io.hdr
               [] wpca.mission_type = MAV_MISSION_TYPE_FENCE -> io.hdr2
               [] wpca.mission_type = MAV_MISSION_TYPE_RALLY -> io.hdr3,
     lock |-> TRUE]

\* channel e is idle, no upload is in progress, and wpca clears one list
ClearsOneList(e, wpca) ==
    /\ InIdle(e)
    /\ ~st._transfer_in_progress
    /\ CHECK_SYSID_COMPID_MISSION(wpca)
    /\ wpca.mission_type \in StoredTypes

\* machine states a and b have the same process-wide and persisted state, and
\* the endpoint is idle with no upload in progress in both
SameOutcome(a, b) ==
    /\ a.st = b.st
    /\ a.dm = b.dm
    /\ a.me._state = MAVLINK_WPM_STATE_IDLE /\ b.me._state = MAVLINK_WPM_STATE_IDLE
    /\ ~a.st._transfer_in_progress

\* the list of type T is cleared in machine state s, which started from Start(e)
Cleared(e, s, T) ==
    CASE T = MAV_MISSION_TYPE_MISSION ->
            /\ s.st._dataman_id = 1 - st._dataman_id
            /\ s.st._count[T] = 0
            /\ s.st._current_seq = 0
            /\ Header(s, T) = [dataman_id |-> 1 - st._dataman_id, count |-> 0, current_seq |-> 0]
      [] T = MAV_MISSION_TYPE_FENCE ->
            /\ s.st._count[T] = 0
            /\ s.st._geofence_update_counter = NextUpdateCounter(st._geofence_update_counter)
            /\ Header(s, T) = [num_items |-> 0, update_counter |-> s.st._geofence_update_counter]
      [] T = MAV_MISSION_TYPE_RALLY ->
            /\ s.st._count[T] = 0
            /\ Header(s, T).num_items = 0

\* C25 as stated: for each T in {MISSION, FENCE, RALLY}, a COUNT(T, count=0)
\* handled in IDLE with transfer_in_progress false leaves the same process-wide
\* and persisted state as a CLEAR_ALL(T) handled in the same starting state:
\* mission active id toggled with count 0 and current_seq 0; fence count 0 with
\* update_counter incremented; rally count 0; the endpoint stays IDLE with
\* transfer_in_progress false.
C25_CountZeroClears ==
    \A e \in Channels : \A wpca \in ClearAllMsgs(e), io \in ClearAllIos :
        LET counted == handle_mission_count(Start(e), CountZeroFor(wpca), CountIoFor(wpca, io))
            cleared == handle_mission_clear_all(Start(e), wpca, io)
        IN  ClearsOneList(e, wpca) =>
              /\ SameOutcome(counted, cleared)
              /\ Cleared(e, counted, wpca.mission_type)

\* C25 amended: the two leave the same state whatever the outcome of the
\* dataman write, and that state is the cleared one when the write succeeds.
C25_CountZeroIsClearAll ==
    \A e \in Channels : \A wpca \in ClearAllMsgs(e), io \in ClearAllIos :
        LET counted == handle_mission_count(Start(e), CountZeroFor(wpca), CountIoFor(wpca, io))
            cleared == handle_mission_clear_all(Start(e), wpca, io)
            T == wpca.mission_type
        IN  ClearsOneList(e, wpca) =>
              /\ SameOutcome(counted, cleared)
              /\ CountIoFor(wpca, io).hdr => Cleared(e, counted, T)
              /\ ~CountIoFor(wpca, io).hdr =>
                    /\ counted.st._count = st._count
                    /\ counted.st._dataman_id = st._dataman_id
                    /\ Header(counted, T) = Header(Start(e), T)

\* with a fence stored, an idle endpoint can clear it with a COUNT of 0 as with
\* a CLEAR_ALL
C25_Witness ==
    /\ InIdle("ch0")
    /\ ~st._transfer_in_progress
    /\ st._count[MAV_MISSION_TYPE_FENCE] > 0
    /\ \E wpca \in ClearAllMsgs("ch0"), io \in ClearAllIos :
          LET counted == handle_mission_count(Start("ch0"), CountZeroFor(wpca),
                                              CountIoFor(wpca, io))
          IN  /\ ClearsOneList("ch0", wpca)
              /\ wpca.mission_type = MAV_MISSION_TYPE_FENCE
              /\ Cleared("ch0", counted, MAV_MISSION_TYPE_FENCE)
              /\ SameOutcome(counted, handle_mission_clear_all(Start("ch0"), wpca, io))

---------------------------------------------------------------------------
(* C26 *)

FlatTypes == {MAV_MISSION_TYPE_FENCE, MAV_MISSION_TYPE_RALLY}

\* the dataman item that holds the list of type T
StoreOf(T) ==
    IF T = MAV_MISSION_TYPE_FENCE THEN DM_KEY_FENCE_POINTS ELSE DM_KEY_SAFE_POINTS

\* v is a stats header
IsStats(v) == "num_items" \in DOMAIN v

\* the slots of the list of type T that differ between stores a and b
SlotsChanged(a, b, T) == {k \in DmIndices(StoreOf(T)) : a[StoreOf(T)][k] # b[StoreOf(T)][k]}

\* the item handler that ended in machine state s wrote item wp of channel e's
\* upload to slot seq + 1 of its list, or a stats header to slot 0, and
\* nothing else to the fence and rally stores
WritesItemSlot(e, wp, s) ==
    \A T \in FlatTypes : \A k \in SlotsChanged(dm, s.dm, T) :
        \/ k = 0 /\ IsStats(s.dm[StoreOf(T)][0])
        \/ /\ T = mgr[e]._mission_type
           /\ k = wp.seq + 1
           /\ 1 <= k /\ k <= mgr[e]._transfer_count
           /\ s.dm[StoreOf(T)][k] = PersistedForm(T, wp)

\* slot 0 of the fence and rally stores is written with a stats header only
SlotZeroGetsStats ==
    \A T \in FlatTypes :
        dm'[StoreOf(T)][0] # dm[StoreOf(T)][0] => IsStats(dm'[StoreOf(T)][0])

\* what is sent for the point v stored in the list of type T
ItemSentFor(int_mode, T, v) ==
    format_mavlink_mission_item(int_mode,
        IF T = MAV_MISSION_TYPE_FENCE THEN ItemOfFencePoint(v) ELSE ItemOfSavePoint(v))

\* machine state s holds item seq with the fields of wire item w
EmitsItemOf(s, seq, w) ==
    \E i \in DOMAIN s.out :
        /\ s.out[i].msg \in {"MISSION_ITEM", "MISSION_ITEM_INT"}
        /\ s.out[i].seq = seq
        /\ \A f \in {"command", "frame", "x", "y", "z", "param1"} : s.out[i][f] = w[f]

\* a request for item seq of a fence or rally download is answered from slot
\* seq + 1
ReadsItemSlot(e, wpr, s) ==
    LET T == mgr[e]._mission_type
    IN  EmitsItemOf(s, wpr.seq, ItemSentFor(s.me._int_mode, T, dm[StoreOf(T)][wpr.seq + 1]))

\* in every state, the item handler writes and the request handlers read slot
\* seq + 1
SlotsAreShifted ==
    \A e \in Channels :
        /\ \A wp \in ItemMsgs(e), io \in ItemIos :
              (Awaited(e, wp) /\ mgr[e]._mission_type \in FlatTypes) =>
                  WritesItemSlot(e, wp, handle_mission_item(Start(e), wp, io))
        /\ \A wpr \in RequestMsgs(e), ok \in ReadIos :
              (/\ InDownload(e, wpr)
               /\ mgr[e]._mission_type \in FlatTypes
               /\ AsksNext(e, wpr) \/ AsksAgain(e, wpr)
               /\ ok) =>
                  \A s \in RequestResults(e, wpr, ok) : ReadsItemSlot(e, wpr, s)

\* C26: every dataman write to the fence or rally namespace made while storing
\* an uploaded item targets slot seq + 1 with 1 <= seq + 1 <= transfer_count,
\* slot 0 is written only with a stats header, and a download of a fence or
\* rally list reads item seq from slot seq + 1.
C26_FenceAndRallySlots == []SlotsAreShifted /\ [][SlotZeroGetsStats]_vars

\* a fence of MaxItems points is stored and its last item is asked for, while
\* the station can also send the last item of an upload
C26_Witness ==
    /\ st._count[MAV_MISSION_TYPE_FENCE] = MaxItems
    /\ \E wpr \in RequestMsgs("ch0"), ok \in ReadIos :
          /\ InDownload("ch0", wpr)
          /\ mgr["ch0"]._mission_type = MAV_MISSION_TYPE_FENCE
          /\ AsksNext("ch0", wpr)
          /\ wpr.seq = MaxItems - 1
          /\ ok
          /\ ReadsItemSlot("ch0", wpr, handle_mission_request(Start("ch0"), wpr, ok))
          /\ dm[DM_KEY_FENCE_POINTS][MaxItems] = PersistedForm(MAV_MISSION_TYPE_FENCE, VertexAt(MaxItems))

---------------------------------------------------------------------------
(* C27 *)

\* mission_result r reports a changed DO_JUMP counter of an item of the active
\* mission
JumpChanged(r) ==
    /\ r.updated
    /\ r.item_do_jump_changed
    /\ r.item_changed_index < st._count[MAV_MISSION_TYPE_MISSION]

\* item seq of the active mission as it goes out in channel e's int/float mode
ActiveMissionItem(e, seq) ==
    format_mavlink_mission_item(mgr[e]._int_mode,
        dm[DM_KEY_WAYPOINTS_OFFBOARD(st._dataman_id)][seq])

\* C27: when mission_result reports item_do_jump_changed, the item re-sent by
\* send() is the MISSION-list item at item_changed_index read from the active
\* mission buffer, whatever the type (MISSION, FENCE or RALLY) of the
\* endpoint's most recent transfer or clear.
C27_JumpResendsMissionItem ==
    \A e \in Channels : \A dt \in Env.dts, r \in Env.results, io \in SendIos :
        (JumpChanged(r) /\ io.rd) =>
            EmitsItemOf(send(AtSend(e, dt), r, io), r.item_changed_index,
                        ActiveMissionItem(e, r.item_changed_index))

---------------------------------------------------------------------------
(* C28 *)

\* the fields of an internal item that depend on its command; time_inside,
\* pitch_min and circle_radius are the field u
CommandFields ==
    {"u", "acceptance_radius", "loiter_radius", "loiter_exit_xtrack", "force_heading",
     "yaw", "vertex_count", "do_jump_mission_index", "do_jump_repeat_count",
     "do_jump_current_count"}

\* encoding mission_item returns OK, and decoding what was encoded in the same
\* mode gives its command, altitude reference, autocontinue and command fields
RoundTrips(int_mode, mission_item) ==
    LET w == format_mavlink_mission_item(int_mode, mission_item)
        back == parse_mavlink_mission_item(int_mode, w)
    IN  /\ w.ret = PX4_OK
        /\ back.ret = MAV_MISSION_ACCEPTED
        /\ \A f \in {"nav_cmd", "altitude_is_relative", "autocontinue"} \cup CommandFields :
              back.item[f] = mission_item[f]

\* the items of variant int that channel e can get
ItemsOfVariant(e, int) == IF int THEN ItemIntMsgs(e) ELSE ItemMsgs(e)

\* C28: for every command the decoder accepts, encoding an internal item with
\* format_mavlink_mission_item returns OK, and decoding the encoded item with
\* parse_mavlink_mission_item in the same int/float mode reproduces nav_cmd,
\* altitude_is_relative, autocontinue and every command-specific field of the
\* original item, numeric fields taken over a bounded value set.
C28_CodecRoundTrip ==
    \A e \in Channels, int \in BOOLEAN : \A wp \in ItemsOfVariant(e, int) :
        LET decoded == parse_mavlink_mission_item(int, wp)
        IN  decoded.ret = MAV_MISSION_ACCEPTED =>
                \A int_mode \in BOOLEAN : RoundTrips(int_mode, decoded.item)

---------------------------------------------------------------------------
(* C29 *)

\* C29: over any run, the number of critical status texts an endpoint emits
\* for dataman read or write failures is at most
\* FILESYSTEM_ERRCOUNT_NOTIFY_LIMIT (2), whichever operation failed (header
\* write, stats write, item read while sending, item write while receiving).
C29_StorageTextsLimited ==
    \A e \in Channels : told[e] <= FILESYSTEM_ERRCOUNT_NOTIFY_LIMIT

---------------------------------------------------------------------------
(* C30 *)

\* an upload is in progress only while some endpoint is in GETLIST
FlagMeansUpload ==
    st._transfer_in_progress => \E e \in Channels : InGetlist(e)

\* a step in which an endpoint leaves GETLIST leaves the flag cleared
UploaderLeavesFlagCleared ==
    \A e \in Channels :
        (InGetlist(e) /\ mgr'[e]._state # MAVLINK_WPM_STATE_GETLIST) =>
            ~st'._transfer_in_progress

\* C30: in every reachable state of a system of one or more endpoints,
\* transfer_in_progress == true implies that some endpoint is in GETLIST; the
\* flag is never left set after the uploading endpoint has returned to IDLE.
C30_FlagOnlyDuringUpload == []FlagMeansUpload /\ [][UploaderLeavesFlagCleared]_vars

\* after a first upload has completed, ch1 is uploading while ch0 is idle, and
\* its last item ends the upload with the flag cleared
C30_Witness ==
    /\ st._count[MAV_MISSION_TYPE_MISSION] > 0
    /\ st._transfer_in_progress
    /\ InGetlist("ch1")
    /\ InIdle("ch0")
    /\ \E wp \in ItemMsgs("ch1"), io \in ItemIos :
          LET s == handle_mission_item(Start("ch1"), wp, io)
          IN  /\ Awaited("ch1", wp)
              /\ s.me._state = MAVLINK_WPM_STATE_IDLE
              /\ ~s.st._transfer_in_progress

---------------------------------------------------------------------------
(* C31 *)

\* the fence lock is held only by an endpoint that receives a fence
LockMeansFenceUpload ==
    \A e \in Channels :
        mgr[e]._geofence_locked =>
            InGetlist(e) /\ mgr[e]._mission_type = MAV_MISSION_TYPE_FENCE

\* a step that starts and ends with the endpoint in GETLIST keeps its type
TypeKeptInGetlist ==
    \A e \in Channels :
        (InGetlist(e) /\ mgr'[e]._state = MAVLINK_WPM_STATE_GETLIST) =>
            mgr'[e]._mission_type = mgr[e]._mission_type

\* C31: in every reachable state, an endpoint's _geofence_locked is true only
\* if its state is GETLIST and its _mission_type is FENCE; _mission_type never
\* changes while the endpoint is in GETLIST.
C31_LockOnlyInFenceUpload == []LockMeansFenceUpload /\ [][TypeKeptInGetlist]_vars

\* with a mission stored, the endpoint holds the lock in a fence upload and gets
\* a COUNT, a REQUEST_LIST and a CLEAR_ALL for missions, none of which changes
\* its type
C31_Witness ==
    /\ st._count[MAV_MISSION_TYPE_MISSION] > 0
    /\ InGetlist("ch0")
    /\ mgr["ch0"]._geofence_locked
    /\ \E wpc \in CountMsgs("ch0"), io \in CountIos :
          /\ wpc.mission_type = MAV_MISSION_TYPE_MISSION
          /\ handle_mission_count(Start("ch0"), wpc, io).me._mission_type = MAV_MISSION_TYPE_FENCE
    /\ \E wprl \in RequestListMsgs("ch0"), ok \in ReadIos :
          /\ wprl.mission_type = MAV_MISSION_TYPE_MISSION
          /\ handle_mission_request_list(Start("ch0"), wprl, ok).me._mission_type
                = MAV_MISSION_TYPE_FENCE
    /\ \E wpca \in ClearAllMsgs("ch0"), io \in ClearAllIos :
          /\ wpca.mission_type = MAV_MISSION_TYPE_MISSION
          /\ handle_mission_clear_all(Start("ch0"), wpca, io).me._mission_type
                = MAV_MISSION_TYPE_FENCE

---------------------------------------------------------------------------
(* C32 *)

\* channel e answers request wpr of its mission download with an item
SendsMissionItem(e, wpr, ok) ==
    /\ InDownload(e, wpr)
    /\ mgr[e]._mission_type = MAV_MISSION_TYPE_MISSION
    /\ EmitsItem(handle_mission_request(Start(e), wpr, ok), wpr.seq)

\* C32: all mission items sent within one MISSION download (from the COUNT
\* reply until the endpoint leaves SENDLIST) are read from the same dataman
\* buffer id, the one that was active when the COUNT was sent, under any
\* interleaving with an upload or clear handled by another endpoint.
C32_DownloadReadsOneBuffer ==
    \A e \in Channels : \A wpr \in RequestMsgs(e), ok \in ReadIos :
        SendsMissionItem(e, wpr, ok) =>
            ReadPlace(Start(e), wpr.seq).item \in {DM_KEY_WAYPOINTS_OFFBOARD(id) : id \in lent[e]}

---------------------------------------------------------------------------
(* C33 *)

\* every MISSION_ACK emitted on the way to machine state s is addressed to the
\* sender of message m
AcksAnswer(s, m) ==
    \A i \in DOMAIN s.out :
        s.out[i].msg = "MISSION_ACK" =>
            /\ s.out[i].target_system = m.sysid
            /\ s.out[i].target_component = m.compid

\* C33: every ACK emitted while handling a COUNT or a CLEAR_ALL (ERROR because
\* a transfer is in progress, NO_SPACE, ACCEPTED or ERROR for a clear) is
\* addressed to the sysid and compid of the sender of that message.
C33_AcksGoToSender ==
    \A e \in Channels :
        /\ \A wpc \in CountMsgs(e), io \in CountIos :
              AcksAnswer(handle_mission_count(Start(e), wpc, io), wpc)
        /\ \A wpca \in ClearAllMsgs(e), io \in ClearAllIos :
              AcksAnswer(handle_mission_clear_all(Start(e), wpca, io), wpca)

---------------------------------------------------------------------------
(* C34 *)

\* machine state s was reached with ACK(ACCEPTED) only if the writes were good,
\* and with ACK(ERROR) if they were not
AnswersWrites(s, good) ==
    /\ EmitsAck(s, MAV_MISSION_ACCEPTED) => good
    /\ ~good => EmitsAck(s, MAV_MISSION_ERROR)

\* wp is the last item of the upload of channel e
LastItem(e, wp) == Awaited(e, wp) /\ wp.seq + 1 = mgr[e]._transfer_count

\* wpc empties a list through the idle channel e
EmptiesList(e, wpc) ==
    /\ InIdle(e)
    /\ CHECK_SYSID_COMPID_MISSION(wpc)
    /\ ~st._transfer_in_progress
    /\ wpc.count = 0

\* wpca clears lists through the idle channel e
ClearsLists(e, wpca) == InIdle(e) /\ CHECK_SYSID_COMPID_MISSION(wpca)

LastItemAnswersWrites ==
    \A e \in Channels : \A wp \in ItemMsgs(e), io \in ItemIos :
        LastItem(e, wp) => AnswersWrites(handle_mission_item(Start(e), wp, io), io.hdr)

CountZeroAnswersWrites ==
    \A e \in Channels : \A wpc \in CountMsgs(e), io \in CountIos :
        EmptiesList(e, wpc) => AnswersWrites(handle_mission_count(Start(e), wpc, io), io.hdr)

ClearAllAnswersWrites ==
    \A e \in Channels : \A wpca \in ClearAllMsgs(e), io \in ClearAllIos :
        ClearsLists(e, wpca) =>
            AnswersWrites(handle_mission_clear_all(Start(e), wpca, io),
                          ClearWritesOk(wpca.mission_type, io))

\* C34: ACK(ACCEPTED) is emitted in answer to an upload's last item, to a COUNT
\* with count 0, or to a CLEAR_ALL only if every header or stats write made for
\* that operation succeeded; when such a write fails the answer is ACK(ERROR).
C34_AcceptedMeansWritten ==
    /\ LastItemAnswersWrites
    /\ CountZeroAnswersWrites
    /\ ClearAllAnswersWrites

---------------------------------------------------------------------------
(* C35 *)

\* handling a message took channel e to machine state s without advancing
\* the upload, writing to storage or completing the upload
UploadUntouched(e, s) ==
    /\ s.me._transfer_seq = mgr[e]._transfer_seq
    /\ s.dm = Start(e).dm
    /\ s.st._count = st._count
    /\ s.st._dataman_id = st._dataman_id
    /\ ~EmitsAck(s, MAV_MISSION_ACCEPTED)

StrangersItemIgnored ==
    \A e \in Channels : \A wp \in ItemMsgs(e), io \in ItemIos :
        (InGetlist(e) /\ ~FromPartnerOf(e, wp)) =>
            UploadUntouched(e, handle_mission_item(Start(e), wp, io))

StrangersCountIgnored ==
    \A e \in Channels : \A wpc \in CountMsgs(e), io \in CountIos :
        (InGetlist(e) /\ ~FromPartnerOf(e, wpc)) =>
            UploadUntouched(e, handle_mission_count(Start(e), wpc, io))

\* C35: in GETLIST, an ITEM or a repeated COUNT sent by a system/component
\* other than the transfer partner does not advance transfer_seq, writes
\* nothing to storage and does not complete the upload.
C35_StrangersDoNotUpload ==
    /\ StrangersItemIgnored
    /\ StrangersCountIgnored

---------------------------------------------------------------------------
(* C36 *)

RelativeFrames == {MAV_FRAME_GLOBAL_RELATIVE_ALT, MAV_FRAME_GLOBAL_RELATIVE_ALT_INT}

\* the item with sequence number seq emitted on the way to machine state s has
\* the altitude reference of frame
SameReference(s, seq, frame) ==
    \A i \in DOMAIN s.out :
        (s.out[i].msg \in {"MISSION_ITEM", "MISSION_ITEM_INT"} /\ s.out[i].seq = seq) =>
            (s.out[i].frame \in RelativeFrames <=> frame \in RelativeFrames)

\* wprl and wpr ask for the list and the item that wp uploads
AsksBack(wp, wprl, wpr) ==
    /\ \A m \in {wprl, wpr} :
          /\ CHECK_SYSID_COMPID_MISSION(m)
          /\ m.sysid = wp.sysid /\ m.compid = wp.compid
          /\ m.mission_type = wp.mission_type
    /\ wpr.seq = wp.seq

\* the machine state after uploading the last item wp of a list through
\* channel e and downloading it again, in the int or the float variant
UploadedAndDownloaded(int, e, wp, io, wprl, wpr) ==
    LET s1 == ItemHandled(int, Start(e), wp, io)
        s2 == handle_mission_request_list(s1, wprl, TRUE)
    IN  IF int THEN handle_mission_request_int(s2, wpr, TRUE)
               ELSE handle_mission_request(s2, wpr, TRUE)

\* C36: for a FENCE or RALLY list, uploading an item and later downloading it
\* in the same int/float mode returns the same altitude reference: an item
\* uploaded with a relative-altitude frame (GLOBAL_RELATIVE_ALT[_INT]) is
\* downloaded with a relative-altitude frame, and one uploaded with an
\* absolute frame is downloaded with an absolute frame.
C36_AltitudeReferenceKept ==
    \A e \in Channels : \A int \in BOOLEAN :
        \A wp \in (IF int THEN ItemIntMsgs(e) ELSE ItemMsgs(e)), io \in ItemIos :
            \A wprl \in RequestListMsgs(e), wpr \in RequestMsgs(e) :
                (/\ LastItem(e, wp)
                 /\ wp.mission_type \in FlatTypes
                 /\ AsksBack(wp, wprl, wpr)) =>
                    SameReference(UploadedAndDownloaded(int, e, wp, io, wprl, wpr),
                                  wp.seq, wp.frame)

\* an item with an absolute frame is uploaded and comes back
AbsoluteComesBack ==
    \A e \in Channels : \A int \in BOOLEAN :
        \A wp \in (IF int THEN ItemIntMsgs(e) ELSE ItemMsgs(e)), io \in ItemIos :
            \A wprl \in RequestListMsgs(e), wpr \in RequestMsgs(e) :
                (/\ LastItem(e, wp)
                 /\ wp.mission_type \in FlatTypes
                 /\ wp.frame \notin RelativeFrames
                 /\ AsksBack(wp, wprl, wpr)) =>
                    SameReference(UploadedAndDownloaded(int, e, wp, io, wprl, wpr),
                                  wp.seq, wp.frame)

=============================================================================
